---- MODULE Spec2Model ----
(***************************************************************************)
(* Multi-agent execution pipeline of agent-leaderboard:                    *)
(*   src/execution/timeout.py     with_timeout                             *)
(*   src/execution/executor.py    execute_single_agent, execute_multi_agent*)
(*   src/models/execution.py      AgentExecution, ExecutionStatus          *)
(* One call of execute_multi_agent is modelled: the event loop runs the    *)
(* N execute_single_agent tasks that asyncio.gather schedules, the wrapped *)
(* agent operations finish, raise or are cancelled by asyncio.wait_for,    *)
(* and a discrete clock stands for datetime.now() and the loop's timers.   *)
(* The parsers of the stored trace and of the evaluator's text are pure    *)
(* functions, each applied once to an input drawn from a bounded set:      *)
(*   shared/src/execution/evaluator.py  extract_agent_response  AnswerSpec *)
(*   src/execution/executor.py      extract_tool_hierarchy   HierarchySpec *)
(*   src/agents/eval_agent.py       extract_score                ScoreSpec *)
(***************************************************************************)
EXTENDS Integers, Sequences, FiniteSets, TLC

(* ---------------------------- bounds ----------------------------------- *)
MaxAgents == 2          \* longest agents / model_configs list
TimeoutSeconds == 1     \* timeout_seconds passed to execute_multi_agent
MaxOverrun == 1         \* clock ticks observed past the deadline
MaxMsgs == 1            \* longest new_messages() list of a run

MaxTime == TimeoutSeconds + MaxOverrun

(* ------------------------- Python values ------------------------------- *)
None == <<>>
Some(v) == <<v>>

TaskIds == {7, 8}

\* ModelConfig values (provider, model) the caller may pass.
ModelConfigs ==
    { [provider |-> "openai", model |-> "gpt-4o"],
      [provider |-> "anthropic", model |-> "claude-sonnet-4"] }

RECURSIVE SeqsUpTo(_, _)
SeqsUpTo(S, n) ==
    IF n = 0 THEN { <<>> }
    ELSE LET shorter == SeqsUpTo(S, n - 1)
         IN  shorter \cup { Append(s, x) : s \in { t \in shorter : Len(t) = n - 1 }, x \in S }

\* Shapes of the message objects result.new_messages() can hold:
\* has_model_dump: hasattr(msg, "model_dump"); has_role: msg.role and
\* msg.content exist; serializable: json.dumps accepts the converted dict.
DumpMessage ==
    [has_model_dump |-> TRUE, has_role |-> FALSE, serializable |-> TRUE, body |-> "dump"]
BytesMessage ==
    [has_model_dump |-> TRUE, has_role |-> FALSE, serializable |-> FALSE, body |-> "bytes"]
RoleMessage ==
    [has_model_dump |-> FALSE, has_role |-> TRUE, serializable |-> TRUE, body |-> "text"]
BareMessage ==
    [has_model_dump |-> FALSE, has_role |-> FALSE, serializable |-> TRUE, body |-> "bare"]

Messages == { DumpMessage, BytesMessage, RoleMessage, BareMessage }

\* Message lists result.new_messages() can return.
MessageLists == SeqsUpTo(Messages, MaxMsgs)

\* What result.usage() does: returns None, returns a usage object with or
\* without total_tokens, or raises.
NoUsage == [raises |-> FALSE, present |-> FALSE, total_tokens |-> None]
TokenUsage == [raises |-> FALSE, present |-> TRUE, total_tokens |-> Some(3)]

Usages ==
    { NoUsage, TokenUsage,
      [raises |-> FALSE, present |-> TRUE, total_tokens |-> None],
      [raises |-> TRUE,  present |-> FALSE, total_tokens |-> None] }

\* Values an awaited operation can return: Python's None or a run result.
PyNone == [py |-> "None"]
RunResult == [py |-> "AgentRunResult"]

\* Exceptions (subclasses of Exception) with the text str(e) gives.
Exc(type, text) == [type |-> type, text |-> text]
NoExc == Exc("none", "")
AgentErrors ==
    { Exc("RuntimeError", "model unavailable"),
      Exc("ValueError", "bad request"),
      Exc("TimeoutError", "read timed out") }

\* Outcome of an awaited call: a returned value or a raised exception.
Returned(v) == [kind |-> "return", value |-> v, exc |-> NoExc]
Raised(e) == [kind |-> "raise", value |-> PyNone, exc |-> e]

\* What the agent operation can do when it ends on its own.
OpOutcomes ==
    { Returned(RunResult), Returned(PyNone) } \cup { Raised(e) : e \in AgentErrors }

\* What the agent operation can do once wait_for has cancelled it: end
\* cancelled, raise another error while unwinding, or swallow the
\* cancellation and return a value.
Cancelled == Raised(Exc("CancelledError", ""))
CancelOutcomes ==
    { Cancelled, Raised(Exc("RuntimeError", "cleanup failed")), Returned(RunResult) }

\* The inputs the batch specification draws from: one representative of
\* every path through execute_single_agent.
BatchOutcomes ==
    { Returned(RunResult),
      Raised(Exc("RuntimeError", "model unavailable")),
      Raised(Exc("TimeoutError", "read timed out")) }
BatchMessageLists == { <<DumpMessage>>, <<BareMessage>> }
BatchUsages == { TokenUsage }

(* -------------------- AgentExecution (models/execution.py) ------------- *)
NoTrace == [kind |-> "none", error |-> "", messages |-> <<>>]

AgentExecution(task, provider, model, t) ==
    [ id |-> None,
      task_id |-> task,
      model_provider |-> provider,
      model_name |-> model,
      status |-> "running",
      started_at |-> t,
      completed_at |-> None,
      duration_seconds |-> None,
      token_count |-> None,
      all_messages_json |-> NoTrace ]

\* Mutant: the subtraction the wrong way round.
calculate_duration_reversed(e) ==
    IF e.completed_at # None
    THEN [e EXCEPT !.duration_seconds = Some(e.started_at - e.completed_at[1])]
    ELSE e

calculate_duration(e) ==
    IF e.completed_at # None
    THEN [e EXCEPT !.duration_seconds = Some(e.completed_at[1] - e.started_at)]
    ELSE e

mark_completed(e, t) ==
    calculate_duration([e EXCEPT !.status = "completed", !.completed_at = Some(t)])

mark_failed(e, t) ==
    calculate_duration([e EXCEPT !.status = "failed", !.completed_at = Some(t)])

mark_timeout(e, t) ==
    calculate_duration([e EXCEPT !.status = "timeout", !.completed_at = Some(t)])

TerminalStatuses == {"completed", "failed", "timeout"}

(* ------------------------------ state ---------------------------------- *)
VARIABLES
    pc,             \* execute_multi_agent: "idle", "raised", "gathering", "returned"
    agents,         \* the agents argument (agent instances, by position)
    model_configs,  \* the model_configs argument
    task_id,        \* the task_id argument
    now,            \* the clock: datetime.now() and the loop's time
    tpc,            \* position of each execute_single_agent task
    execution,      \* the AgentExecution each started task created
    op,             \* the agent.run(prompt) operation of each task
    timer,          \* wait_for's deadline of each task
    result,         \* the local result of execute_single_agent (line 67)
    new_messages,   \* the local new_messages of execute_single_agent (line 79)
    caught,         \* the exception bound by the except clause (line 96)
    results,        \* the list execute_multi_agent returns
    messages_json,  \* the stored trace handed to the trace parsers
    response,       \* outcome of extract_agent_response(messages_json)
    tool_hierarchy, \* outcome of extract_tool_hierarchy(execution)
    text,           \* the evaluator's response text handed to extract_score
    score,          \* outcome of extract_score(text)
    explanation,    \* outcome of extract_explanation(text)
    evaluation,     \* outcome of building an EvaluationResult
    call,           \* the last call made from outside the page: name and arguments
    task_submissions,   \* the rows of table task_submissions, as inserted
    agent_executions,   \* the rows of table agent_executions, as inserted
    evaluations,        \* the rows of table evaluations, as inserted
    reply,          \* what the repository answered to that call
    config,         \* the AppConfig the page or the handler was built with
    is_executing,   \* MainPage.is_executing
    tool_tree_component,    \* MainPage.tool_tree_component
    runs            \* the execute_task call of each caller: position and locals

\* The state of the parsers, which no step of the executor touches.
parser_vars == << messages_json, response, tool_hierarchy, text, score >>

\* The state of the executor, which no step of a parser touches.
executor_vars == << pc, agents, model_configs, task_id, now, tpc, execution, op,
                    timer, result, new_messages, caught, results >>

\* The tables of the store and the repository's last reply.
store_vars == << task_submissions, agent_executions, evaluations, reply >>

\* The page, its configuration and the execute_task calls made on it.
page_vars == << config, is_executing, tool_tree_component, runs >>

\* The state of the evaluation pipeline, which no step of the executor or
\* of a trace parser touches.
pipeline_vars == << explanation, evaluation, call, store_vars, page_vars >>

vars == << pc, agents, model_configs, task_id, now, tpc, execution, op, timer,
           result, new_messages, caught, results, parser_vars, pipeline_vars >>

Tasks == DOMAIN tpc

IdleOp == [state |-> "idle", outcome |-> Returned(PyNone)]

\* No parser or extractor has been called.
NotCalled == [kind |-> "none", value |-> PyNone, exc |-> NoExc]

\* Before execute_multi_agent is called.
ExecutorIdle ==
    /\ pc = "idle"
    /\ agents = <<>>
    /\ model_configs = <<>>
    /\ task_id = 0
    /\ now = 0
    /\ tpc = <<>>
    /\ execution = <<>>
    /\ op = <<>>
    /\ timer = <<>>
    /\ result = <<>>
    /\ new_messages = <<>>
    /\ caught = <<>>
    /\ results = <<>>

\* No trace and no evaluator text has been handed to a parser.
ParserIdle ==
    /\ messages_json = PyNone
    /\ response = NotCalled
    /\ tool_hierarchy = NotCalled
    /\ text = <<>>
    /\ score = NotCalled

\* The callers that may be inside execute_task at once (submit handlers).
MaxCallers == 2
Callers == 1..MaxCallers

\* AppConfig: the task agents and the evaluation prompt template, which
\* holds or lacks the two placeholders (config/models.py:57-70).
PageAgents ==
    << [provider |-> "openai", model |-> "gpt-4o"],
       [provider |-> "anthropic", model |-> "claude-sonnet-4"] >>
Template(has_task_prompt, has_agent_response) ==
    [has_task_prompt |-> has_task_prompt, has_agent_response |-> has_agent_response]
AppConfig(template) == [task_agents |-> PageAgents, evaluation_prompt |-> template]
DefaultConfig == AppConfig(Template(TRUE, TRUE))
Configs ==
    { DefaultConfig, AppConfig(Template(FALSE, TRUE)), AppConfig(Template(TRUE, FALSE)) }

\* The evaluator operation of a run that awaits none.
NoEvaluator == [state |-> "idle", prompt |-> <<>>]

\* A caller outside execute_task that has not called it yet.
IdleRun ==
    [ pc |-> "idle", task_id |-> 0, executions |-> <<>>, index |-> 0,
      eval_agent |-> None, evaluator |-> NoEvaluator, log |-> <<>>,
      evaluated_results |-> <<>>, exc |-> NoExc ]

\* Nothing has been evaluated.
EvaluationIdle ==
    /\ explanation = NotCalled
    /\ evaluation = NotCalled
    /\ call = <<>>

\* The schema has been initialized and the tables are empty.
StoreIdle ==
    /\ task_submissions = <<>>
    /\ agent_executions = <<>>
    /\ evaluations = <<>>
    /\ reply = NotCalled

\* MainPage.__init__ (main.py:40-56): nothing is executing, no component
\* has been created and no caller is inside execute_task.
PageConstructed ==
    /\ is_executing = FALSE
    /\ tool_tree_component = None
    /\ runs = [c \in Callers |-> IdleRun]

PipelineIdle ==
    /\ EvaluationIdle
    /\ StoreIdle
    /\ config = DefaultConfig
    /\ PageConstructed

Init == ExecutorIdle /\ ParserIdle /\ PipelineIdle

(* ----------------------- timeout.py: with_timeout ---------------------- *)
\* asyncio.wait_for once the deadline has fired and the cancelled operation
\* has ended: a cancelled operation becomes TimeoutError, anything else the
\* operation did (raise, return) is passed on.
wait_for_expired(outcome) ==
    IF outcome = Cancelled THEN Raised(Exc("TimeoutError", "")) ELSE outcome

\* try: return await wait_for(...)  except TimeoutError: return None
with_timeout(wf) ==
    IF wf.kind = "raise" /\ wf.exc.type = "TimeoutError" THEN Returned(PyNone) ELSE wf

(* ------------------- executor.py: execute_single_agent ----------------- *)
\* json.dumps({"error": str(e)})
ErrorMarker(e) == [kind |-> "error", error |-> e.text, messages |-> <<>>]

\* msg.model_dump(), or {"role": str(msg.role), "content": str(msg.content)}
ConvertMessage(m) ==
    IF m.has_model_dump
    THEN [keys |-> "model_dump", body |-> m.body]
    ELSE [keys |-> "role,content", body |-> m.body]

\* json.dumps(messages_data)
JsonDumps(msgs) ==
    [kind |-> "messages", error |-> "",
     messages |-> [k \in 1..Len(msgs) |-> ConvertMessage(msgs[k])]]

\* The exception lines 79-89 raise for a message list, NoExc when none.
ReadTraceError(msgs) ==
    IF \E k \in 1..Len(msgs) : ~msgs[k].has_model_dump /\ ~msgs[k].has_role
    THEN Exc("AttributeError", "object has no attribute 'role'")
    ELSE IF \E k \in 1..Len(msgs) : ~msgs[k].serializable
    THEN Exc("TypeError", "Object is not JSON serializable")
    ELSE NoExc

UsageError == Exc("RuntimeError", "usage unavailable")

\* Mutant: the handler marks the execution failed and stores no marker.
ExceptHandlerNoMarker(e, exc, t) == mark_failed(e, t)

\* except Exception as e: (lines 96-99)
ExceptHandler(e, exc, t) ==
    [mark_failed(e, t) EXCEPT !.all_messages_json = ErrorMarker(exc)]

\* Lines 69-72: the timeout branch.
TimeoutBranch(e, t) ==
    [mark_timeout(e, t) EXCEPT !.all_messages_json = NoTrace]

\* execute_single_agent from the return of wait_for up to line 75 (or to the
\* return of line 101 on the timeout and failure paths).
Resume(i, wf) ==
    LET r == with_timeout(wf)
        e == execution[i]
    IN  IF r.kind = "raise"
        THEN /\ execution' = [execution EXCEPT ![i] = ExceptHandler(e, r.exc, now)]
             /\ caught' = [caught EXCEPT ![i] = r.exc]
             /\ result' = result
             /\ tpc' = [tpc EXCEPT ![i] = "returned"]
        ELSE IF r.value = PyNone
        THEN /\ execution' = [execution EXCEPT ![i] = TimeoutBranch(e, now)]
             /\ result' = [result EXCEPT ![i] = r.value]
             /\ caught' = caught
             /\ tpc' = [tpc EXCEPT ![i] = "returned"]
        ELSE /\ execution' = [execution EXCEPT ![i] = mark_completed(e, now)]
             /\ result' = [result EXCEPT ![i] = r.value]
             /\ caught' = caught
             /\ tpc' = [tpc EXCEPT ![i] = "marked_completed"]

\* Mutant: the agents run one after the other (await in a loop).
StartSequential(i) ==
    /\ pc = "gathering"
    /\ i \in Tasks
    /\ tpc[i] = "pending"
    /\ \A j \in 1..(i - 1) : tpc[j] = "returned"
    /\ execution' = (i :> AgentExecution(task_id, model_configs[i].provider,
                                         model_configs[i].model, now)) @@ execution
    /\ op' = [op EXCEPT ![i].state = "running"]
    /\ timer' = [timer EXCEPT ![i] = "armed"]
    /\ tpc' = [tpc EXCEPT ![i] = "awaiting"]
    /\ UNCHANGED << pc, agents, model_configs, task_id, now, result, new_messages,
                    caught, results >>

\* Lines 58-67: the task starts, creates its AgentExecution, calls
\* agent.run(prompt) and suspends in wait_for with the deadline armed.
Start(i) ==
    /\ pc = "gathering"
    /\ i \in Tasks
    /\ tpc[i] = "pending"
    /\ execution' = (i :> AgentExecution(task_id, model_configs[i].provider,
                                         model_configs[i].model, now)) @@ execution
    /\ op' = [op EXCEPT ![i].state = "running"]
    /\ timer' = [timer EXCEPT ![i] = "armed"]
    /\ tpc' = [tpc EXCEPT ![i] = "awaiting"]
    /\ UNCHANGED << pc, agents, model_configs, task_id, now, result, new_messages,
                    caught, results >>

\* The operation ends on its own before the deadline has fired; wait_for
\* hands its outcome to with_timeout and the task resumes.
OpFinish(i, outcome) ==
    /\ pc = "gathering"
    /\ i \in Tasks
    /\ tpc[i] = "awaiting"
    /\ op[i].state = "running"
    /\ timer[i] = "armed"
    /\ op' = [op EXCEPT ![i] = [state |-> "ended", outcome |-> outcome]]
    /\ timer' = [timer EXCEPT ![i] = "disarmed"]
    /\ Resume(i, outcome)
    /\ UNCHANGED << pc, agents, model_configs, task_id, now, new_messages, results >>

\* Mutant: the deadline abandons the operation (it is left running) and
\* with_timeout returns the sentinel at once.
DeadlineFireAbandon(i) ==
    /\ pc = "gathering"
    /\ i \in Tasks
    /\ tpc[i] = "awaiting"
    /\ timer[i] = "armed"
    /\ now - execution[i].started_at >= TimeoutSeconds
    /\ timer' = [timer EXCEPT ![i] = "fired"]
    /\ Resume(i, Raised(Exc("TimeoutError", "")))
    /\ UNCHANGED << pc, agents, model_configs, task_id, now, op, new_messages,
                    results >>

\* The deadline of wait_for fires: the operation is cancelled and wait_for
\* keeps waiting until the operation has ended.
DeadlineFire(i) ==
    /\ pc = "gathering"
    /\ i \in Tasks
    /\ tpc[i] = "awaiting"
    /\ timer[i] = "armed"
    /\ now - execution[i].started_at >= TimeoutSeconds
    /\ timer' = [timer EXCEPT ![i] = "fired"]
    /\ op' = [op EXCEPT ![i].state = "cancelling"]
    /\ UNCHANGED << pc, agents, model_configs, task_id, now, tpc, execution,
                    result, new_messages, caught, results >>

\* The cancelled operation ends; wait_for returns or raises and the task
\* resumes.
OpCancelled(i, outcome) ==
    /\ pc = "gathering"
    /\ i \in Tasks
    /\ tpc[i] = "awaiting"
    /\ op[i].state = "cancelling"
    /\ op' = [op EXCEPT ![i] = [state |-> "ended", outcome |-> outcome]]
    /\ Resume(i, wait_for_expired(outcome))
    /\ UNCHANGED << pc, agents, model_configs, task_id, now, timer, new_messages,
                    results >>

\* Lines 79-89: convert result.new_messages() and store the JSON.
ReadTrace(i, msgs) ==
    /\ pc = "gathering"
    /\ i \in Tasks
    /\ tpc[i] = "marked_completed"
    /\ new_messages' = [new_messages EXCEPT ![i] = msgs]
    /\ LET exc == ReadTraceError(msgs)
       IN  IF exc # NoExc
           THEN /\ execution' = [execution EXCEPT ![i] = ExceptHandler(@, exc, now)]
                /\ caught' = [caught EXCEPT ![i] = exc]
                /\ tpc' = [tpc EXCEPT ![i] = "returned"]
           ELSE /\ execution' = [execution EXCEPT ![i].all_messages_json = JsonDumps(msgs)]
                /\ caught' = caught
                /\ tpc' = [tpc EXCEPT ![i] = "trace_read"]
    /\ UNCHANGED << pc, agents, model_configs, task_id, now, op, timer, result,
                    results >>

\* Lines 92-94 and the return of line 101.
ReadUsage(i, usage) ==
    /\ pc = "gathering"
    /\ i \in Tasks
    /\ tpc[i] = "trace_read"
    /\ IF usage.raises
       THEN /\ execution' = [execution EXCEPT ![i] = ExceptHandler(@, UsageError, now)]
            /\ caught' = [caught EXCEPT ![i] = UsageError]
       ELSE /\ execution' = [execution EXCEPT ![i].token_count =
                   IF usage.present THEN usage.total_tokens ELSE @]
            /\ caught' = caught
    /\ tpc' = [tpc EXCEPT ![i] = "returned"]
    /\ UNCHANGED << pc, agents, model_configs, task_id, now, op, timer, result,
                    new_messages, results >>

(* ------------------- executor.py: execute_multi_agent ------------------ *)
\* Mutant: no length check, zip stops at the shorter list.
CallUnchecked(n_agents, configs, task) ==
    LET n == IF n_agents < Len(configs) THEN n_agents ELSE Len(configs)
    IN  /\ pc = "idle"
        /\ agents' = [i \in 1..n_agents |-> i]
        /\ model_configs' = configs
        /\ task_id' = task
        /\ pc' = "gathering"
        /\ tpc' = [i \in 1..n |-> "pending"]
        /\ op' = [i \in 1..n |-> IdleOp]
        /\ timer' = [i \in 1..n |-> "unset"]
        /\ result' = [i \in 1..n |-> PyNone]
        /\ new_messages' = [i \in 1..n |-> <<>>]
        /\ caught' = [i \in 1..n |-> NoExc]
        /\ UNCHANGED << now, execution, results >>

\* Lines 126-135: the length check, then one coroutine per (agent, config).
Call(n_agents, configs, task) ==
    /\ pc = "idle"
    /\ agents' = [i \in 1..n_agents |-> i]
    /\ model_configs' = configs
    /\ task_id' = task
    /\ IF n_agents # Len(configs)
       THEN /\ pc' = "raised"
            /\ UNCHANGED << tpc, op, timer, result, new_messages, caught >>
       ELSE /\ pc' = "gathering"
            /\ tpc' = [i \in 1..n_agents |-> "pending"]
            /\ op' = [i \in 1..n_agents |-> IdleOp]
            /\ timer' = [i \in 1..n_agents |-> "unset"]
            /\ result' = [i \in 1..n_agents |-> PyNone]
            /\ new_messages' = [i \in 1..n_agents |-> <<>>]
            /\ caught' = [i \in 1..n_agents |-> NoExc]
    /\ UNCHANGED << now, execution, results >>

\* Mutant: the results in the order the tasks completed (as_completed).
gather_as_completed ==
    LET Rank(i) ==
            1 + Cardinality({ j \in Tasks :
                    \/ execution[j].completed_at[1] < execution[i].completed_at[1]
                    \/ /\ execution[j].completed_at[1] = execution[i].completed_at[1]
                       /\ j < i })
    IN  [k \in 1..Len(tpc) |-> execution[CHOOSE i \in Tasks : Rank(i) = k]]

\* The value of await asyncio.gather(*tasks): one result per task, in the
\* order the tasks were passed.
gather == [i \in 1..Len(tpc) |-> execution[i]]

\* Lines 138-140: gather has every result; return list(results).
GatherReturn ==
    /\ pc = "gathering"
    /\ \A i \in Tasks : tpc[i] = "returned"
    /\ results' = gather
    /\ pc' = "returned"
    /\ UNCHANGED << agents, model_configs, task_id, now, tpc, execution, op, timer,
                    result, new_messages, caught >>

\* Time passes while the event loop waits: some task is suspended in wait_for
\* and no task has synchronous code to run (the tasks gather schedules all
\* start in the first iteration of the loop, and the code after wait_for
\* runs without suspending). A deadline that is due fires before the clock
\* moves on.
Tick ==
    /\ pc = "gathering"
    /\ now < MaxTime
    /\ \E i \in Tasks : tpc[i] = "awaiting"
    /\ \A i \in Tasks : tpc[i] \in {"awaiting", "returned"}
    /\ \A i \in Tasks :
          ~(timer[i] = "armed" /\ now - execution[i].started_at >= TimeoutSeconds)
    /\ now' = now + 1
    /\ UNCHANGED << pc, agents, model_configs, task_id, tpc, execution, op, timer,
                    result, new_messages, caught, results >>

\* One batch call with up to MaxAgents agents.
Next ==
    \/ \E n \in 0..MaxAgents, configs \in SeqsUpTo(ModelConfigs, MaxAgents), task \in TaskIds :
          Call(n, configs, task) /\ UNCHANGED << parser_vars, pipeline_vars >>
    \/ \E i \in 1..MaxAgents : Start(i) /\ UNCHANGED << parser_vars, pipeline_vars >>
    \/ \E i \in 1..MaxAgents, outcome \in BatchOutcomes : OpFinish(i, outcome) /\ UNCHANGED << parser_vars, pipeline_vars >>
    \/ \E i \in 1..MaxAgents : DeadlineFire(i) /\ UNCHANGED << parser_vars, pipeline_vars >>
    \/ \E i \in 1..MaxAgents, outcome \in CancelOutcomes : OpCancelled(i, outcome) /\ UNCHANGED << parser_vars, pipeline_vars >>
    \/ \E i \in 1..MaxAgents, msgs \in BatchMessageLists : ReadTrace(i, msgs) /\ UNCHANGED << parser_vars, pipeline_vars >>
    \/ \E i \in 1..MaxAgents, usage \in BatchUsages : ReadUsage(i, usage) /\ UNCHANGED << parser_vars, pipeline_vars >>
    \/ GatherReturn /\ UNCHANGED << parser_vars, pipeline_vars >>
    \/ Tick /\ UNCHANGED << parser_vars, pipeline_vars >>

Spec == Init /\ [][Next]_vars

(* ---------------- the batch under the event loop's scheduling ---------- *)
\* The inputs of the batch whose termination is followed: agents of one
\* configuration that return, raise or never end on their own.
FairConfig == [provider |-> "openai", model |-> "gpt-4o"]
FairOutcomes == { Returned(RunResult), Raised(Exc("RuntimeError", "model unavailable")) }

FairNext ==
    \/ \E configs \in SeqsUpTo({ FairConfig }, MaxAgents) :
          /\ configs # <<>>
          /\ Call(Len(configs), configs, 7) /\ UNCHANGED << parser_vars, pipeline_vars >>
    \/ \E i \in 1..MaxAgents : Start(i) /\ UNCHANGED << parser_vars, pipeline_vars >>
    \/ \E i \in 1..MaxAgents, outcome \in FairOutcomes :
          OpFinish(i, outcome) /\ UNCHANGED << parser_vars, pipeline_vars >>
    \/ \E i \in 1..MaxAgents : DeadlineFire(i) /\ UNCHANGED << parser_vars, pipeline_vars >>
    \/ \E i \in 1..MaxAgents, outcome \in CancelOutcomes :
          OpCancelled(i, outcome) /\ UNCHANGED << parser_vars, pipeline_vars >>
    \/ \E i \in 1..MaxAgents :
          ReadTrace(i, << DumpMessage >>) /\ UNCHANGED << parser_vars, pipeline_vars >>
    \/ \E i \in 1..MaxAgents :
          ReadUsage(i, TokenUsage) /\ UNCHANGED << parser_vars, pipeline_vars >>
    \/ GatherReturn /\ UNCHANGED << parser_vars, pipeline_vars >>
    \/ Tick /\ UNCHANGED << parser_vars, pipeline_vars >>

\* The event loop runs every task that is ready (the start of a task, the
\* code after wait_for, the return of gather), fires a deadline that is due
\* and lets time pass. A cancelled operation is assumed to end: asyncio
\* throws CancelledError into it at the await it is suspended in. Nothing
\* makes an operation that is running end on its own.
FairSpec ==
    /\ Init
    /\ [][FairNext]_vars
    /\ \A i \in 1..MaxAgents :
          /\ WF_vars(Start(i) /\ UNCHANGED << parser_vars, pipeline_vars >>)
          /\ WF_vars(DeadlineFire(i) /\ UNCHANGED << parser_vars, pipeline_vars >>)
          /\ WF_vars(\E outcome \in CancelOutcomes :
                        OpCancelled(i, outcome) /\ UNCHANGED << parser_vars, pipeline_vars >>)
          /\ WF_vars(ReadTrace(i, << DumpMessage >>)
                        /\ UNCHANGED << parser_vars, pipeline_vars >>)
          /\ WF_vars(ReadUsage(i, TokenUsage) /\ UNCHANGED << parser_vars, pipeline_vars >>)
    /\ WF_vars(GatherReturn /\ UNCHANGED << parser_vars, pipeline_vars >>)
    /\ WF_vars(Tick /\ UNCHANGED << parser_vars, pipeline_vars >>)

\* One agent, every shape of outcome, message list and usage.
SingleNext ==
    \/ \E configs \in SeqsUpTo(ModelConfigs, 1), task \in TaskIds :
          Len(configs) = 1 /\ Call(1, configs, task) /\ UNCHANGED << parser_vars, pipeline_vars >>
    \/ Start(1) /\ UNCHANGED << parser_vars, pipeline_vars >>
    \/ \E outcome \in OpOutcomes : OpFinish(1, outcome) /\ UNCHANGED << parser_vars, pipeline_vars >>
    \/ DeadlineFire(1) /\ UNCHANGED << parser_vars, pipeline_vars >>
    \/ \E outcome \in CancelOutcomes : OpCancelled(1, outcome) /\ UNCHANGED << parser_vars, pipeline_vars >>
    \/ \E msgs \in MessageLists : ReadTrace(1, msgs) /\ UNCHANGED << parser_vars, pipeline_vars >>
    \/ \E usage \in Usages : ReadUsage(1, usage) /\ UNCHANGED << parser_vars, pipeline_vars >>
    \/ GatherReturn /\ UNCHANGED << parser_vars, pipeline_vars >>
    \/ Tick /\ UNCHANGED << parser_vars, pipeline_vars >>

SingleSpec == Init /\ [][SingleNext]_vars

(* ------------------ JSON documents and Python strings ------------------ *)
MaxTraceSize == 4       \* messages plus parts of the longest answer trace

\* A Python str is a sequence of pieces: a piece is one character of the
\* data ("a", " ") or a literal of the program ("Called ").
Whitespace == { " " }

\* A value json.loads can produce: its Python type and its value, which is
\* the pieces of a str, the items of a list, the keys and values of a dict.
Str(s) == << "str", s >>
List(items) == << "list", items >>
Dict(d) == << "dict", d >>
Number(n) == << "int", n >>
Null == << "NoneType", <<>> >>

type(x) == x[1]
val(x) == x[2]
isinstance(x, t) == type(x) = t

\* a == b of two parsed values.
PyEq(a, b) == type(a) = type(b) /\ val(a) = val(b)

\* bool(x): the empty str, list and dict, zero and None are false.
Truthy(x) ==
    CASE type(x) \in {"str", "list"} -> val(x) # <<>>
      [] type(x) = "dict" -> DOMAIN val(x) # {}
      [] type(x) = "int" -> val(x) # 0
      [] OTHER -> FALSE

\* d.get(key, default) of a dict d.
get(d, key, default) == IF key \in DOMAIN val(d) THEN val(d)[key] ELSE default

\* str(x) as an f-string formats it: a str is itself, any other value is
\* one piece holding its repr.
format(x) ==
    CASE type(x) = "str" -> val(x)
      [] type(x) = "dict" -> << "{...}" >>
      [] type(x) = "list" -> << "[...]" >>
      [] type(x) = "int" -> << "<int>" >>
      [] OTHER -> << "None" >>

\* len(x): defined for str, list and dict only.
len(x) ==
    CASE type(x) \in {"str", "list"} -> Returned(Len(val(x)))
      [] type(x) = "dict" -> Returned(Cardinality(DOMAIN val(x)))
      [] OTHER -> Raised(Exc("TypeError", "object has no len()"))

\* x[:100]: defined for str and list only.
slice(x) ==
    IF type(x) \in {"str", "list"} THEN Returned(x)
    ELSE Raised(Exc("TypeError", "object is not sliceable"))

RECURSIVE lstrip(_)
lstrip(s) ==
    IF s # <<>> /\ Head(s) \in Whitespace THEN lstrip(Tail(s)) ELSE s

RECURSIVE rstrip(_)
rstrip(s) ==
    IF s # <<>> /\ s[Len(s)] \in Whitespace THEN rstrip(SubSeq(s, 1, Len(s) - 1)) ELSE s

\* s.strip()
strip(s) == rstrip(lstrip(s))

\* " ".join(parts): raises TypeError when an item is not a str.
RECURSIVE concat(_)
concat(parts) ==
    IF parts = <<>> THEN <<>>
    ELSE IF Len(parts) = 1 THEN val(parts[1])
    ELSE val(parts[1]) \o << " " >> \o concat(Tail(parts))

join(parts) ==
    IF \E i \in 1..Len(parts) : ~isinstance(parts[i], "str")
    THEN Raised(Exc("TypeError", "sequence item: expected str instance"))
    ELSE Returned(concat(parts))

\* The str argument of json.loads: None, text that is not JSON (the empty
\* text included), or the dump of a document.
NoneArg == [py |-> "None", text |-> "", doc |-> Null]
Text(t) == [py |-> "str", text |-> t, doc |-> Null]
Dump(doc) == [py |-> "str", text |-> "json", doc |-> doc]

\* json.loads(s)
json_loads(s) ==
    IF s.py = "None" THEN Raised(Exc("TypeError", "the JSON object must be str"))
    ELSE IF s.text = "json" THEN Returned(s.doc)
    ELSE Raised(Exc("JSONDecodeError", "Expecting value"))

(* ------------- evaluator.py: extract_agent_response -------------------- *)
\* Lines 205-220: the content of the parts of one response message that
\* are not tool calls or tool returns, appended to response_parts.
RECURSIVE ResponseParts(_, _)
ResponseParts(parts, response_parts) ==
    IF parts = <<>> THEN response_parts
    ELSE LET part == Head(parts)
             part_kind == get(part, "part_kind", Str(<<>>))
             content == get(part, "content", Str(<<>>))
         IN  IF ~isinstance(part, "dict") THEN ResponseParts(Tail(parts), response_parts)
             ELSE IF /\ Truthy(content)
                     /\ ~PyEq(part_kind, Str(<< "tool-call" >>))
                     /\ ~PyEq(part_kind, Str(<< "tool-return" >>))
             THEN ResponseParts(Tail(parts), Append(response_parts, content))
             ELSE ResponseParts(Tail(parts), response_parts)

\* Lines 193-220: the loop over the messages.  Line 203 formats len(parts)
\* into the debug message before line 204 asks whether parts is a list.
RECURSIVE ResponseMessages(_, _)
ResponseMessages(messages, response_parts) ==
    IF messages = <<>> THEN Returned(response_parts)
    ELSE LET message == Head(messages)
             parts == get(message, "parts", List(<<>>))
         IN  IF ~isinstance(message, "dict") THEN ResponseMessages(Tail(messages), response_parts)
             ELSE IF ~PyEq(get(message, "kind", Null), Str(<< "response" >>))
             THEN ResponseMessages(Tail(messages), response_parts)
             ELSE IF len(parts).kind = "raise" THEN len(parts)
             ELSE IF isinstance(parts, "list")
             THEN ResponseMessages(Tail(messages), ResponseParts(val(parts), response_parts))
             ELSE ResponseMessages(Tail(messages), response_parts)

\* Lines 239-251: "Called <tool_name>" for a tool call, "Result: <content>"
\* for a tool return with content; line 251 slices the content for the
\* debug message.
RECURSIVE ToolInfoParts(_, _)
ToolInfoParts(parts, tool_info) ==
    IF parts = <<>> THEN Returned(tool_info)
    ELSE LET part == Head(parts)
             tool_name == get(part, "tool_name", Str(<< "unknown tool" >>))
             tool_content == get(part, "content", Str(<<>>))
         IN  IF ~isinstance(part, "dict") THEN ToolInfoParts(Tail(parts), tool_info)
             ELSE IF PyEq(get(part, "part_kind", Null), Str(<< "tool-call" >>))
             THEN ToolInfoParts(Tail(parts),
                                Append(tool_info, Str(<< "Called " >> \o format(tool_name))))
             ELSE IF PyEq(get(part, "part_kind", Null), Str(<< "tool-return" >>))
                     /\ Truthy(tool_content)
             THEN IF slice(tool_content).kind = "raise" THEN slice(tool_content)
                  ELSE ToolInfoParts(Tail(parts),
                                     Append(tool_info, Str(<< "Result: " >> \o format(tool_content))))
             ELSE ToolInfoParts(Tail(parts), tool_info)

\* Lines 234-251: the loop of the fallback over every message.
RECURSIVE ToolInfoMessages(_, _)
ToolInfoMessages(messages, tool_info) ==
    IF messages = <<>> THEN Returned(tool_info)
    ELSE LET message == Head(messages)
             parts == get(message, "parts", List(<<>>))
         IN  IF ~isinstance(message, "dict") \/ ~isinstance(parts, "list")
             THEN ToolInfoMessages(Tail(messages), tool_info)
             ELSE LET found == ToolInfoParts(val(parts), tool_info)
                  IN  IF found.kind = "raise" THEN found
                      ELSE ToolInfoMessages(Tail(messages), found.value)

\* Lines 231-257: the answer rebuilt from the tool calls when no text was found.
ToolFallback(messages, text_result) ==
    LET tool_info == ToolInfoMessages(messages, <<>>)
    IN  IF tool_info.kind = "raise" THEN tool_info
        ELSE IF tool_info.value # <<>> THEN Returned(strip(join(tool_info.value).value))
        ELSE Returned(text_result)

\* Lines 164-257.
extract_agent_response(s) ==
    IF s.py = "None" \/ s.text = "" THEN Returned(<<>>)
    ELSE LET loaded == json_loads(s)
             messages == loaded.value
         IN  IF loaded.kind = "raise" THEN Returned(<<>>)
             ELSE IF ~isinstance(messages, "list") THEN Returned(<<>>)
             ELSE LET response_parts == ResponseMessages(val(messages), <<>>)
                      joined == join(response_parts.value)
                      text_result == strip(joined.value)
                  IN  IF response_parts.kind = "raise" THEN response_parts
                      ELSE IF joined.kind = "raise" THEN joined
                      ELSE IF text_result = <<>> /\ Len(val(messages)) > 0
                      THEN ToolFallback(val(messages), text_result)
                      ELSE Returned(text_result)

(* ------------------------- answer traces ------------------------------- *)
\* A tool argument or result that is structured, not text.
Structured == Dict([is_prime |-> Number(1)])

TextPart(content) == Dict([part_kind |-> Str(<< "text" >>), content |-> content])
ToolCallPart(tool_name) ==
    Dict([part_kind |-> Str(<< "tool-call" >>), tool_name |-> Str(<< tool_name >>)])
ToolReturnPart(content) == Dict([part_kind |-> Str(<< "tool-return" >>), content |-> content])

\* The parts a message of a trace can hold: text (plain, with a trailing
\* blank, empty, structured), tool calls with and without a name, tool
\* returns (text, structured, empty) and a part that is not an object.
PartShapes ==
    { TextPart(Str(<< "a" >>)), TextPart(Str(<< "b", " " >>)), TextPart(Str(<<>>)),
      TextPart(Structured),
      ToolCallPart("f"), Dict([part_kind |-> Str(<< "tool-call" >>)]),
      ToolReturnPart(Str(<< "r" >>)), ToolReturnPart(Structured), ToolReturnPart(Str(<<>>)),
      Str(<< "x" >>) }

RECURSIVE PartLists(_)
PartLists(n) ==
    IF n = 0 THEN { <<>> }
    ELSE { << part >> \o parts : part \in PartShapes, parts \in PartLists(n - 1) }

Message(kind, parts) == Dict([kind |-> Str(<< kind >>), parts |-> parts])

\* Records of unexpected shape: not an object, parts that is null, a str,
\* or missing.
OddMessages ==
    { Str(<< "x" >>), Message("response", Null), Message("response", Str(<< "x" >>)),
      Dict([kind |-> Str(<< "response" >>)]) }

\* The messages that weigh size: one for the message, one for each part.
MessagesOfSize(size) ==
    { Message(kind, List(parts)) : kind \in {"request", "response"},
                                   parts \in PartLists(size - 1) }
    \cup (IF size = 1 THEN OddMessages ELSE {})

\* The message lists that weigh at most size.
RECURSIVE TracesUpTo(_)
TracesUpTo(size) ==
    { <<>> } \cup
    UNION { { << message >> \o rest : message \in MessagesOfSize(first),
                                     rest \in TracesUpTo(size - first) } :
            first \in 1..size }

\* The trace a failed execution stores (executor.py:98): the dump of the
\* error marker.
ErrorTrace(e) == Dump(Dict([error |-> Str(<< ErrorMarker(e).error >>)]))

\* The traces handed to extract_agent_response: absent, empty, not JSON,
\* JSON that is not a list, an error marker, a list of messages.
AnswerInputs ==
    { NoneArg, Text(""), Text("not valid json"), Dump(Number(5)), Dump(Structured) }
    \cup { ErrorTrace(e) : e \in AgentErrors }
    \cup { Dump(List(messages)) : messages \in TracesUpTo(MaxTraceSize) }

AnswerInit ==
    /\ ExecutorIdle
    /\ messages_json \in AnswerInputs
    /\ response = NotCalled
    /\ tool_hierarchy = NotCalled
    /\ text = <<>>
    /\ score = NotCalled
    /\ PipelineIdle

\* A caller (main.py:142, agent_responses.py:59) extracts the answer.
ExtractAgentResponse ==
    /\ response.kind = "none"
    /\ response' = extract_agent_response(messages_json)
    /\ UNCHANGED << messages_json, tool_hierarchy, text, score >>
    /\ UNCHANGED << executor_vars, pipeline_vars >>

AnswerNext == ExtractAgentResponse

AnswerSpec == AnswerInit /\ [][AnswerNext]_vars

(* --------------- executor.py: extract_tool_hierarchy ------------------- *)
MaxCalls == 3           \* longest message list of a tool-call trace

\* A Python dict in insertion order: a sequence of <<key, value>> items.
\* Assigning to a key that is present keeps its position.
keys(d) == [i \in 1..Len(d) |-> d[i][1]]
contains(d, key) == \E i \in 1..Len(d) : d[i][1] = key
getitem(d, key) == d[CHOOSE i \in 1..Len(d) : d[i][1] = key][2]
setitem(d, key, value) ==
    IF contains(d, key)
    THEN [i \in 1..Len(d) |-> IF d[i][1] = key THEN << key, value >> ELSE d[i]]
    ELSE Append(d, << key, value >>)

EmptyDict == Dict(<<>>)

\* Lines 285-304: the tool calls and tool responses of the messages, by call_id.
RECURSIVE ScanToolMessages(_, _, _)
ScanToolMessages(messages, tool_calls, tool_responses) ==
    IF messages = <<>> THEN [tool_calls |-> tool_calls, tool_responses |-> tool_responses]
    ELSE LET msg == Head(messages)
             role == get(msg, "role", Str(<<>>))
             call_id == get(msg, "call_id", Str(<<>>))
             call_info == [tool_name |-> get(msg, "tool_name", Str(<< "unknown" >>)),
                           args |-> get(msg, "args", EmptyDict),
                           call_id |-> call_id,
                           parent_id |-> get(msg, "parent_id", Null)]
         IN  IF ~isinstance(msg, "dict")
             THEN ScanToolMessages(Tail(messages), tool_calls, tool_responses)
             ELSE IF PyEq(role, Str(<< "tool_call" >>)) /\ Truthy(call_id)
             THEN ScanToolMessages(Tail(messages), setitem(tool_calls, call_id, call_info),
                                   tool_responses)
             ELSE IF PyEq(role, Str(<< "tool_response" >>)) /\ Truthy(call_id)
             THEN ScanToolMessages(Tail(messages), tool_calls,
                                   setitem(tool_responses, call_id, get(msg, "content", EmptyDict)))
             ELSE ScanToolMessages(Tail(messages), tool_calls, tool_responses)

\* Lines 311-319: one node for every tool call.  The children of a node
\* are references to nodes, held here as their call_ids.
ToolCallNode(call_info, tool_responses) ==
    [tool_name |-> call_info.tool_name,
     args |-> call_info.args,
     result |-> IF contains(tool_responses, call_info.call_id)
                THEN getitem(tool_responses, call_info.call_id) ELSE EmptyDict,
     call_id |-> call_info.call_id,
     children |-> <<>>]

CreateNodes(tool_calls, tool_responses) ==
    [i \in 1..Len(tool_calls) |->
        << tool_calls[i][1], ToolCallNode(tool_calls[i][2], tool_responses) >>]

\* Lines 321-323: a call without parent_id is a root.
IsRoot(call_info) == ~Truthy(call_info.parent_id)

RootNodes(tool_calls) ==
    SelectSeq(keys(tool_calls), LAMBDA call_id : IsRoot(getitem(tool_calls, call_id)))

\* Lines 325-331: every call whose parent_id names a node is appended to
\* the children of that node.
RECURSIVE LinkChildren(_, _)
LinkChildren(calls, nodes) ==
    IF calls = <<>> THEN nodes
    ELSE LET call_id == Head(calls)[1]
             parent_id == Head(calls)[2].parent_id
             parent_node == getitem(nodes, parent_id)
         IN  IF Truthy(parent_id) /\ contains(nodes, parent_id)
             THEN LinkChildren(Tail(calls),
                      setitem(nodes, parent_id,
                              [parent_node EXCEPT !.children = Append(@, call_id)]))
             ELSE LinkChildren(Tail(calls), nodes)

\* The list a call returns: root_nodes refers to nodes.
Hierarchy(root_nodes, nodes) == [root_nodes |-> root_nodes, nodes |-> nodes]

\* Lines 254-333.
extract_tool_hierarchy(all_messages_json) ==
    IF all_messages_json.py = "None" THEN Returned(Hierarchy(<<>>, <<>>))
    ELSE LET loaded == json_loads(all_messages_json)
             messages == loaded.value
             found == ScanToolMessages(val(messages), <<>>, <<>>)
             nodes == CreateNodes(found.tool_calls, found.tool_responses)
         IN  IF loaded.kind = "raise"
             THEN Raised(Exc("ValueError", "Failed to parse messages JSON"))
             ELSE IF ~isinstance(messages, "list") THEN Returned(Hierarchy(<<>>, <<>>))
             ELSE Returned(Hierarchy(RootNodes(found.tool_calls),
                                     LinkChildren(found.tool_calls, nodes)))

(* ------------------------ tool-call traces ----------------------------- *)
CallIds == { "call_1", "call_2" }

\* A parent_id that names no call of any trace.
DanglingId == "call_9"

\* Messages of the role format: a tool call with and without parent_id and
\* a tool response.
ToolCall(call_id, tool_name) ==
    Dict([role |-> Str(<< "tool_call" >>), tool_name |-> Str(<< tool_name >>),
          args |-> Structured, call_id |-> Str(<< call_id >>)])
NestedToolCall(call_id, tool_name, parent_id) ==
    Dict([role |-> Str(<< "tool_call" >>), tool_name |-> Str(<< tool_name >>),
          args |-> Structured, call_id |-> Str(<< call_id >>),
          parent_id |-> Str(<< parent_id >>)])
ToolResponse(call_id, content) ==
    Dict([role |-> Str(<< "tool_response" >>), call_id |-> Str(<< call_id >>),
          content |-> content])

\* Parts of the kind/part_kind format: a tool call and its return.
CallPart(call_id, tool_name) ==
    Dict([part_kind |-> Str(<< "tool-call" >>), tool_name |-> Str(<< tool_name >>),
          args |-> Structured, call_id |-> Str(<< call_id >>)])
ReturnPart(call_id, content) ==
    Dict([part_kind |-> Str(<< "tool-return" >>), content |-> content,
          call_id |-> Str(<< call_id >>)])

RoleMessages ==
    { ToolCall(call_id, "check_prime") : call_id \in CallIds }
    \cup { ToolCall("call_1", "get_datetime") }
    \cup { NestedToolCall(call_id, "check_prime", parent_id) :
              call_id \in CallIds, parent_id \in CallIds \cup { DanglingId } }
    \cup { ToolResponse("call_1", Str(<< "r" >>)), ToolResponse("call_2", Structured) }

KindMessages ==
    { Message("response", List(<< CallPart("call_1", "check_prime"),
                                  ReturnPart("call_1", Structured) >>)),
      Message("response", List(<< CallPart("call_2", "get_datetime") >>)) }

\* Messages without a tool invocation: a user prompt of either format, a
\* text response, a record that is not an object.
PlainMessages ==
    { Dict([role |-> Str(<< "user" >>), content |-> Str(<< "a" >>)]),
      Message("response", List(<< TextPart(Str(<< "a" >>)) >>)),
      Str(<< "x" >>) }

\* The traces handed to extract_tool_hierarchy.
HierarchyInputs ==
    { NoneArg, Text(""), Text("not valid json"), Dump(Number(5)) }
    \cup { ErrorTrace(e) : e \in AgentErrors }
    \cup { Dump(List(messages)) :
              messages \in SeqsUpTo(RoleMessages \cup KindMessages \cup PlainMessages, MaxCalls) }

HierarchyInit ==
    /\ ExecutorIdle
    /\ messages_json \in HierarchyInputs
    /\ response = NotCalled
    /\ tool_hierarchy = NotCalled
    /\ text = <<>>
    /\ score = NotCalled
    /\ PipelineIdle

\* A caller (tool_tree.py:82) extracts the hierarchy of an execution.
ExtractToolHierarchy ==
    /\ tool_hierarchy.kind = "none"
    /\ tool_hierarchy' = extract_tool_hierarchy(messages_json)
    /\ UNCHANGED << messages_json, response, text, score >>
    /\ UNCHANGED << executor_vars, pipeline_vars >>

HierarchyNext == ExtractToolHierarchy

HierarchySpec == HierarchyInit /\ [][HierarchyNext]_vars

(* ------------------- eval_agent.py: extract_score ---------------------- *)
MaxText == 4            \* pieces of the longest evaluator text
ExcerptLen == 100       \* text[:100] of the error message

\* The pieces of an evaluator text: the marker in two spellings, a blank,
\* a minus sign, a letter and digits.
Markers == { "Score:", "SCORE:" }
Digits == { "0", "1", "5" }
Pieces == Markers \cup Whitespace \cup Digits \cup { "-", "x" }

DigitValue(d) == CASE d = "0" -> 0 [] d = "1" -> 1 [] d = "5" -> 5

\* int(digits)
RECURSIVE int(_)
int(digits) ==
    IF digits = <<>> THEN 0
    ELSE 10 * int(SubSeq(digits, 1, Len(digits) - 1)) + DigitValue(digits[Len(digits)])

\* \s* and \d+ are greedy: the end of the longest run of pieces of a set
\* that starts at position i (i - 1 when the run is empty).
RECURSIVE RunEnd(_, _, _)
RunEnd(t, i, set) ==
    IF i <= Len(t) /\ t[i] \in set THEN RunEnd(t, i + 1, set) ELSE i - 1

\* re.search(r"Score:\s*(\d+)", text, re.IGNORECASE) tried at position i
\* and after: group(1) of the first match, <<>> when nothing matches.
RECURSIVE SearchMarker(_, _)
SearchMarker(t, i) ==
    IF i > Len(t) THEN <<>>
    ELSE LET first == RunEnd(t, i + 1, Whitespace) + 1
             last == RunEnd(t, first, Digits)
         IN  IF t[i] \in Markers /\ last >= first THEN << SubSeq(t, first, last) >>
             ELSE SearchMarker(t, i + 1)

\* \b: a word character (letter or digit) on one side only.  The marker
\* begins with a letter and ends with a colon.
WordBefore(t, i) == i > 1 /\ t[i - 1] \in Digits \cup { "x" }
WordAfter(t, i) == i < Len(t) /\ t[i + 1] \in Digits \cup { "x" } \cup Markers

\* re.findall(r"\b(\d+)\b", text) from position i on.
RECURSIVE FindNumbers(_, _)
FindNumbers(t, i) ==
    IF i > Len(t) THEN <<>>
    ELSE LET last == RunEnd(t, i, Digits)
         IN  IF last < i THEN FindNumbers(t, i + 1)
             ELSE IF ~WordBefore(t, i) /\ ~WordAfter(t, last)
             THEN << SubSeq(t, i, last) >> \o FindNumbers(t, last + 1)
             ELSE FindNumbers(t, last + 1)

\* Lines 94-97: the first number of the list that is in 0..100.
RECURSIVE FirstInRange(_)
FirstInRange(numbers) ==
    IF numbers = <<>> THEN <<>>
    ELSE IF 0 <= int(Head(numbers)) /\ int(Head(numbers)) <= 100 THEN << int(Head(numbers)) >>
    ELSE FirstInRange(Tail(numbers))

OutOfRange(n) == Exc("ValueError", << "Score is out of range (0-100)", n >>)
NoScore(t) ==
    Exc("ValueError", << "Could not extract valid score from text",
                         SubSeq(t, 1, IF Len(t) < ExcerptLen THEN Len(t) ELSE ExcerptLen) >>)

\* Lines 92-99: the fallback.
ScoreFallback(t) ==
    LET num == FirstInRange(FindNumbers(t, 1))
    IN  IF num # <<>> THEN Returned(num[1]) ELSE Raised(NoScore(t))

\* extract_score trying the standalone integers before the marker.
extract_score_numbers_first(t) ==
    LET num == FirstInRange(FindNumbers(t, 1))
        score_match == SearchMarker(t, 1)
    IN  IF num # <<>> THEN Returned(num[1])
        ELSE IF score_match # <<>> THEN Raised(OutOfRange(int(score_match[1])))
        ELSE Raised(NoScore(t))

\* Lines 72-99.
extract_score(t) ==
    LET score_match == SearchMarker(t, 1)
        score_value == int(score_match[1])
    IN  IF score_match # <<>>
        THEN IF 0 <= score_value /\ score_value <= 100 THEN Returned(score_value)
             ELSE Raised(OutOfRange(score_value))
        ELSE ScoreFallback(t)

Texts == SeqsUpTo(Pieces, MaxText)

ScoreInit ==
    /\ ExecutorIdle
    /\ messages_json = PyNone
    /\ response = NotCalled
    /\ tool_hierarchy = NotCalled
    /\ text \in Texts
    /\ score = NotCalled
    /\ PipelineIdle

\* parse_evaluation_response (eval_agent.py:152) extracts the score.
ExtractScore ==
    /\ score.kind = "none"
    /\ score' = extract_score(text)
    /\ UNCHANGED << messages_json, response, tool_hierarchy, text >>
    /\ UNCHANGED << executor_vars, pipeline_vars >>

ScoreNext == ExtractScore

ScoreSpec == ScoreInit /\ [][ScoreNext]_vars

(* ---------------- eval_agent.py: extract_explanation ------------------- *)
\* The pieces of an evaluator's response: the explanation marker in two
\* spellings, the score marker, a blank, digits and a letter.
ExplanationMarkers == { "Explanation:", "EXPLANATION:" }
EvaluatorPieces == ExplanationMarkers \cup { "Score:" } \cup Whitespace \cup { "1", "5", "x" }

\* re.search(r"Explanation:\s*(.+)", text, re.IGNORECASE | re.DOTALL) tried
\* at position i and after: group(1) of the first match, <<>> when nothing
\* matches.  \s* is greedy and gives one blank back when nothing follows it.
RECURSIVE SearchExplanation(_, _)
SearchExplanation(t, i) ==
    IF i > Len(t) THEN <<>>
    ELSE LET blanks == RunEnd(t, i + 1, Whitespace)
         IN  IF t[i] \in ExplanationMarkers /\ blanks < Len(t)
             THEN << SubSeq(t, blanks + 1, Len(t)) >>
             ELSE IF t[i] \in ExplanationMarkers /\ blanks > i
             THEN << SubSeq(t, Len(t), Len(t)) >>
             ELSE SearchExplanation(t, i + 1)

\* re.search(r"Score:\s*\d+\s*(.+)", text, re.IGNORECASE | re.DOTALL) tried
\* at position i and after.  When nothing follows the digits and the blanks
\* after them, the second \s* gives its last blank back to (.+), and when
\* there is none \d+ gives its last digit back.
RECURSIVE SearchScoreTail(_, _)
SearchScoreTail(t, i) ==
    IF i > Len(t) THEN <<>>
    ELSE LET first == RunEnd(t, i + 1, Whitespace) + 1
             last == RunEnd(t, first, Digits)
             blanks == RunEnd(t, last + 1, Whitespace)
         IN  IF t[i] \in Markers /\ last >= first /\ blanks < Len(t)
             THEN << SubSeq(t, blanks + 1, Len(t)) >>
             ELSE IF t[i] \in Markers /\ last >= first /\ (blanks > last \/ last > first)
             THEN << SubSeq(t, Len(t), Len(t)) >>
             ELSE SearchScoreTail(t, i + 1)

NoExplanation == Exc("ValueError", "Could not extract explanation from response")

\* Lines 102-135.
extract_explanation(t) ==
    LET explanation_match == SearchExplanation(t, 1)
        score_pattern == SearchScoreTail(t, 1)
        cleaned_text == strip(t)
    IN  IF explanation_match # <<>> /\ strip(explanation_match[1]) # <<>>
        THEN Returned(strip(explanation_match[1]))
        ELSE IF score_pattern # <<>> /\ strip(score_pattern[1]) # <<>>
        THEN Returned(strip(score_pattern[1]))
        ELSE IF cleaned_text # <<>> THEN Returned(cleaned_text)
        ELSE Raised(NoExplanation)

EvaluatorTexts == SeqsUpTo(EvaluatorPieces, MaxText)

ExplanationInit ==
    /\ ExecutorIdle
    /\ messages_json = PyNone
    /\ response = NotCalled
    /\ tool_hierarchy = NotCalled
    /\ text \in EvaluatorTexts
    /\ score = NotCalled
    /\ PipelineIdle

\* parse_evaluation_response (eval_agent.py:157) extracts the explanation.
ExtractExplanation ==
    /\ explanation.kind = "none"
    /\ explanation' = extract_explanation(text)
    /\ UNCHANGED << evaluation, call >>
    /\ UNCHANGED << executor_vars, parser_vars, store_vars, page_vars >>

ExplanationNext == ExtractExplanation

ExplanationSpec == ExplanationInit /\ [][ExplanationNext]_vars

(* ------------------ evaluation.py: EvaluationResult -------------------- *)
ValidationError(field) == Exc("ValidationError", field)
BlankExplanation ==
    Exc("ValueError", "Explanation must not be empty after trimming whitespace")

\* EvaluationResult accepting any score.
EvaluationResult_any_score(execution_id, score_value, explanation_text) ==
    IF Len(explanation_text) < 1 THEN Raised(ValidationError("explanation"))
    ELSE IF strip(explanation_text) = <<>> THEN Raised(BlankExplanation)
    ELSE Returned([id |-> None, execution_id |-> execution_id, score |-> score_value,
                   explanation |-> explanation_text])

\* EvaluationResult(execution_id=..., score=..., explanation=...): the field
\* constraints (lines 24-25), then model_post_init (lines 37-47).
EvaluationResult(execution_id, score_value, explanation_text) ==
    IF score_value < 0 \/ score_value > 100 THEN Raised(ValidationError("score"))
    ELSE IF Len(explanation_text) < 1 THEN Raised(ValidationError("explanation"))
    ELSE IF strip(explanation_text) = <<>> THEN Raised(BlankExplanation)
    ELSE Returned([id |-> None, execution_id |-> execution_id, score |-> score_value,
                   explanation |-> explanation_text])

\* raise ValueError(f"Failed to extract ...: {e}") from e
Wrapped(what, e) == Exc("ValueError", << what, e.text >>)

\* eval_agent.py lines 138-166.
parse_evaluation_response(response_text, execution_id) ==
    LET score_value == extract_score(response_text)
        explanation_text == extract_explanation(response_text)
    IN  IF score_value.kind = "raise"
        THEN Raised(Wrapped("Failed to extract score", score_value.exc))
        ELSE IF explanation_text.kind = "raise"
        THEN Raised(Wrapped("Failed to extract explanation", explanation_text.exc))
        ELSE EvaluationResult(execution_id, score_value.value, explanation_text.value)

\* evaluator.py lines 90-128: evaluate_execution once the evaluator has
\* answered response_text.  execution_id is execution.id or 0.
evaluate_response(response_text, execution_id) ==
    LET score_value == extract_score(response_text)
        explanation_text == extract_explanation(response_text)
    IN  IF response_text = <<>>
        THEN Raised(Exc("ValueError", "No response text found in evaluation agent result"))
        ELSE IF score_value.kind = "raise" THEN score_value
        ELSE IF explanation_text.kind = "raise" THEN explanation_text
        ELSE EvaluationResult(execution_id, score_value.value, explanation_text.value)

\* Scores and execution ids handed to the constructor.
ScoreArgs == { -1, 0, 100, 101 }
ExecutionIds == { 1, 2 }

ResultInit == ExplanationInit

\* A caller (test_models.py:210-228) constructs an EvaluationResult, here
\* with the text as its explanation.
Construct(execution_id, score_value) ==
    /\ evaluation.kind = "none"
    /\ evaluation' = EvaluationResult(execution_id, score_value, text)
    /\ call' = << "EvaluationResult", execution_id, score_value, text >>
    /\ UNCHANGED << explanation >>
    /\ UNCHANGED << executor_vars, parser_vars, store_vars, page_vars >>

\* executor.py:250 parses the evaluator's response.
ParseEvaluationResponse(execution_id) ==
    /\ evaluation.kind = "none"
    /\ evaluation' = parse_evaluation_response(text, execution_id)
    /\ call' = << "parse_evaluation_response", execution_id >>
    /\ UNCHANGED << explanation >>
    /\ UNCHANGED << executor_vars, parser_vars, store_vars, page_vars >>

\* evaluator.py:90-128 parses the evaluator's response.
EvaluateResponse(execution_id) ==
    /\ evaluation.kind = "none"
    /\ evaluation' = evaluate_response(text, execution_id)
    /\ call' = << "evaluate_execution", execution_id >>
    /\ UNCHANGED << explanation >>
    /\ UNCHANGED << executor_vars, parser_vars, store_vars, page_vars >>

ResultNext ==
    \/ \E execution_id \in ExecutionIds, score_value \in ScoreArgs :
          Construct(execution_id, score_value)
    \/ \E execution_id \in ExecutionIds : ParseEvaluationResponse(execution_id)
    \/ \E execution_id \in ExecutionIds : EvaluateResponse(execution_id)

ResultSpec == ResultInit /\ [][ResultNext]_vars

(* ------------- schema.py and repositories.py: the store ---------------- *)
MaxTasks == 2           \* rows of task_submissions
MaxExecutions == 2      \* rows of agent_executions

ConstraintException(constraint) == Exc("ConstraintException", constraint)

\* RETURNING id: the store numbers the rows of a table as they are inserted
\* (no statement of the repository deletes a row).
NextId(table) == Len(table) + 1
Ids(table) == { table[i].id : i \in 1..Len(table) }
Rows(table) == { table[i] : i \in 1..Len(table) }

\* INSERT INTO task_submissions (repositories.py:42-45).
insert_task(tasks, prompt) ==
    [ table |-> Append(tasks, [id |-> NextId(tasks), prompt |-> prompt]),
      outcome |-> Returned(NextId(tasks)) ]

\* INSERT INTO agent_executions (repositories.py:69-89) under the foreign
\* key of schema.py:36.
insert_execution(tasks, executions, e) ==
    IF e.task_id \notin Ids(tasks)
    THEN [ table |-> executions,
           outcome |-> Raised(ConstraintException("agent_executions.task_id")) ]
    ELSE [ table |-> Append(executions,
                            [ id |-> NextId(executions),
                              task_id |-> e.task_id,
                              model_provider |-> e.model_provider,
                              model_name |-> e.model_name,
                              status |-> e.status,
                              duration_seconds |-> e.duration_seconds ]),
           outcome |-> Returned(NextId(executions)) ]

\* INSERT INTO evaluations without the unique index on execution_id.
insert_evaluation_no_unique_index(executions, evals, ev) ==
    IF ev.score < 0 \/ ev.score > 100
    THEN [ table |-> evals, outcome |-> Raised(ConstraintException("evaluations.score")) ]
    ELSE IF strip(ev.explanation) = <<>>
    THEN [ table |-> evals,
           outcome |-> Raised(ConstraintException("evaluations.explanation")) ]
    ELSE IF ev.execution_id \notin Ids(executions)
    THEN [ table |-> evals,
           outcome |-> Raised(ConstraintException("evaluations.execution_id")) ]
    ELSE [ table |-> Append(evals,
                            [ id |-> NextId(evals),
                              execution_id |-> ev.execution_id,
                              score |-> ev.score,
                              explanation |-> ev.explanation ]),
           outcome |-> Returned(NextId(evals)) ]

\* INSERT INTO evaluations (repositories.py:249-262) under the checks and
\* the foreign key of schema.py:65-74 and the unique index of
\* schema.py:76-79.
insert_evaluation(executions, evals, ev) ==
    IF ev.score < 0 \/ ev.score > 100
    THEN [ table |-> evals, outcome |-> Raised(ConstraintException("evaluations.score")) ]
    ELSE IF strip(ev.explanation) = <<>>
    THEN [ table |-> evals,
           outcome |-> Raised(ConstraintException("evaluations.explanation")) ]
    ELSE IF \E i \in 1..Len(evals) : evals[i].execution_id = ev.execution_id
    THEN [ table |-> evals,
           outcome |-> Raised(ConstraintException("idx_evaluations_execution_id")) ]
    ELSE IF ev.execution_id \notin Ids(executions)
    THEN [ table |-> evals,
           outcome |-> Raised(ConstraintException("evaluations.execution_id")) ]
    ELSE [ table |-> Append(evals,
                            [ id |-> NextId(evals),
                              execution_id |-> ev.execution_id,
                              score |-> ev.score,
                              explanation |-> ev.explanation ]),
           outcome |-> Returned(NextId(evals)) ]

\* The view leaderboard_entries (schema.py:87-106): agent_executions JOIN
\* evaluations JOIN task_submissions.
leaderboard_entries(tasks, executions, evals) ==
    { [ execution_id |-> ae.id,
        task_id |-> ae.task_id,
        model_provider |-> ae.model_provider,
        model_name |-> ae.model_name,
        status |-> ae.status,
        duration_seconds |-> ae.duration_seconds,
        score |-> ev.score,
        evaluation_text |-> ev.explanation,
        prompt |-> ts.prompt ] :
      << ae, ev, ts >> \in { j \in Rows(executions) \X Rows(evals) \X Rows(tasks) :
                                j[1].id = j[2].execution_id /\ j[1].task_id = j[3].id } }

\* ORDER BY with no order at all.
OrderedBefore_any(a, b) == TRUE

\* ORDER BY score DESC, duration_seconds ASC (repositories.py:298): row a
\* may stand before row b.  A NULL duration sorts last.
OrderedBefore(a, b) ==
    \/ a.score > b.score
    \/ /\ a.score = b.score
       /\ \/ b.duration_seconds = None
          \/ /\ a.duration_seconds # None
             /\ a.duration_seconds[1] <= b.duration_seconds[1]

\* The lists that hold every row of a set once, in order.
Orderings(rows) ==
    { list \in [1..Cardinality(rows) -> rows] :
        /\ \A i, j \in DOMAIN list : i # j => list[i] # list[j]
        /\ \A i, j \in DOMAIN list : i < j => OrderedBefore(list[i], list[j]) }

\* get_leaderboard (repositories.py:273-319): the lists the query can give.
get_leaderboard(tasks, executions, evals, task) ==
    Orderings({ row \in leaderboard_entries(tasks, executions, evals) : row.task_id = task })

\* The executions and evaluations handed to the repository.
StoredDurations == { 1, 2 }
StoredExecutions(task) ==
    { AgentExecution(task, "openai", "gpt-4o", 0) }
    \cup { mark_completed(AgentExecution(task, "openai", "gpt-4o", 0), d) : d \in StoredDurations }
StoredScores == { 50, 90 }
StoredEvaluations ==
    { EvaluationResult(id, score_value, << "x" >>).value :
        id \in 1..MaxExecutions, score_value \in StoredScores }

StoreInit == Init

\* create_task (repositories.py:28-54)
CreateTask ==
    /\ Len(task_submissions) < MaxTasks
    /\ LET inserted == insert_task(task_submissions, "prompt")
       IN  /\ task_submissions' = inserted.table
           /\ reply' = inserted.outcome
    /\ call' = << "create_task" >>
    /\ UNCHANGED << agent_executions, evaluations >>
    /\ UNCHANGED << executor_vars, parser_vars, explanation, evaluation, page_vars >>

\* create_execution (repositories.py:56-98)
CreateExecution(e) ==
    /\ Len(agent_executions) < MaxExecutions
    /\ LET inserted == insert_execution(task_submissions, agent_executions, e)
       IN  /\ agent_executions' = inserted.table
           /\ reply' = inserted.outcome
    /\ call' = << "create_execution", e >>
    /\ UNCHANGED << task_submissions, evaluations >>
    /\ UNCHANGED << executor_vars, parser_vars, explanation, evaluation, page_vars >>

\* create_evaluation (repositories.py:235-271)
CreateEvaluation(ev) ==
    /\ LET inserted == insert_evaluation(agent_executions, evaluations, ev)
       IN  /\ evaluations' = inserted.table
           /\ reply' = inserted.outcome
    /\ call' = << "create_evaluation", ev >>
    /\ UNCHANGED << task_submissions, agent_executions >>
    /\ UNCHANGED << executor_vars, parser_vars, explanation, evaluation, page_vars >>

\* get_leaderboard (repositories.py:273-319)
GetLeaderboard(task) ==
    /\ \E leaderboard \in get_leaderboard(task_submissions, agent_executions,
                                          evaluations, task) :
          reply' = Returned(leaderboard)
    /\ call' = << "get_leaderboard", task >>
    /\ UNCHANGED << task_submissions, agent_executions, evaluations >>
    /\ UNCHANGED << executor_vars, parser_vars, explanation, evaluation, page_vars >>

StoreNext ==
    \/ CreateTask
    \/ \E task \in 1..MaxTasks : \E e \in StoredExecutions(task) : CreateExecution(e)
    \/ \E ev \in StoredEvaluations : CreateEvaluation(ev)
    \/ \E task \in 1..MaxTasks : GetLeaderboard(task)

StoreSpec == StoreInit /\ [][StoreNext]_vars

(* --------------- evaluator.py: evaluate_execution ---------------------- *)
\* Lines 51-62: the prompt is the f-string of the function, filled with the
\* task prompt and the agent's response.
EvaluationPrompt(task_prompt, agent_response) ==
    [ built_from |-> "f-string", task_prompt |-> task_prompt,
      agent_response |-> agent_response ]

\* eval_agent.py lines 46-69: the prompt made from the configured template.
format_evaluation_prompt(prompt_template, task_prompt, agent_response) ==
    IF ~prompt_template.has_task_prompt
    THEN Raised(Exc("ValueError", "Prompt template missing {task_prompt} placeholder"))
    ELSE IF ~prompt_template.has_agent_response
    THEN Raised(Exc("ValueError", "Prompt template missing {agent_response} placeholder"))
    ELSE Returned([ built_from |-> "template", task_prompt |-> task_prompt,
                    agent_response |-> agent_response ])

\* What the evaluator agent answers: a score and an explanation, or text
\* without a score.
EvaluatorResult(output) == [py |-> "AgentRunResult", output |-> output]
ScoredAnswer == << "Score:", " ", "5", "Explanation:", "x" >>
UnscoredAnswer == << "x" >>

\* What eval_agent.run does when it ends before the deadline, and once
\* wait_for has cancelled it.
EvaluatorOutcomes ==
    { Returned(EvaluatorResult(ScoredAnswer)), Returned(EvaluatorResult(UnscoredAnswer)),
      Raised(Exc("RuntimeError", "model unavailable")) }
EvaluatorCancelOutcomes == { Cancelled, Returned(EvaluatorResult(ScoredAnswer)) }

EvaluationTimedOut == Exc("TimeoutError", "Evaluation timed out after 30.0 seconds")

\* Lines 64-141 once with_timeout has returned or raised.
evaluate_execution(awaited, e) ==
    IF awaited.kind = "raise" THEN awaited
    ELSE IF awaited.value.py = "None" THEN Raised(EvaluationTimedOut)
    ELSE evaluate_response(awaited.value.output, IF e.id = None THEN 0 ELSE e.id[1])

(* ------------------ main.py: MainPage.execute_task --------------------- *)
\* The traces of the executions execute_multi_agent hands back: an answer,
\* an empty list of messages, none.
AnswerTrace == Dump(List(<< Message("response", List(<< TextPart(Str(<< "a" >>)) >>)) >>))
EmptyTrace == Dump(List(<<>>))

\* The Execution an agent of the batch can end with.
PageExecutions(task, model_config) ==
    LET e == AgentExecution(task, model_config.provider, model_config.model, 0)
    IN  { [mark_completed(e, 1) EXCEPT !.all_messages_json = AnswerTrace],
          [mark_completed(e, 1) EXCEPT !.all_messages_json = EmptyTrace],
          [mark_timeout(e, 1) EXCEPT !.all_messages_json = NoneArg] }

\* What execute_multi_agent can return for the configured agents.
PageExecutionLists(task) ==
    { list \in [1..Len(config.task_agents) ->
                   UNION { PageExecutions(task, config.task_agents[k]) :
                             k \in 1..Len(config.task_agents) }] :
        \A k \in 1..Len(config.task_agents) :
            list[k] \in PageExecutions(task, config.task_agents[k]) }

\* The calls of execute_task that get past the check of is_executing.
MaxRuns == 1

StoreError == Exc("duckdb.Error", "IO Error")

\* if execution.all_messages_json: a str that is not empty.
HasTrace(e) == e.all_messages_json.py # "None" /\ e.all_messages_json.text # ""

\* The callers outside execute_task.
Outside == { "idle", "returned", "raised", "rejected" }

\* finally: (lines 214-216) after return, or after except ... raise.
Ended(position, error) == [IdleRun EXCEPT !.pc = position, !.exc = error]

\* execute_task without the check of is_executing.
ExecuteTask_unguarded(c, store_ok) ==
    /\ runs[c].pc \in Outside
    /\ IF store_ok
       THEN LET inserted == insert_task(task_submissions, "prompt")
            IN  /\ Len(task_submissions) < MaxRuns
                /\ task_submissions' = inserted.table
                /\ is_executing' = TRUE
                /\ runs' = [runs EXCEPT ![c] = [IdleRun EXCEPT !.pc = "agents",
                                                  !.task_id = inserted.outcome.value]]
       ELSE /\ is_executing' = FALSE
            /\ runs' = [runs EXCEPT ![c] = Ended("raised", StoreError)]
            /\ UNCHANGED task_submissions
    /\ UNCHANGED << agent_executions, evaluations, call, reply, config, tool_tree_component >>
    /\ UNCHANGED << executor_vars, parser_vars, explanation, evaluation >>

\* Lines 58-104, up to the await of execute_multi_agent: the call returns at
\* once when is_executing is set; else it sets it and creates the task, or
\* create_task raises and the finally clause clears it.
ExecuteTask(c, store_ok) ==
    /\ runs[c].pc \in Outside
    /\ IF is_executing
       THEN /\ runs' = [runs EXCEPT ![c] = Ended("rejected", NoExc)]
            /\ UNCHANGED << task_submissions, is_executing >>
       ELSE IF store_ok
       THEN LET inserted == insert_task(task_submissions, "prompt")
            IN  /\ Len(task_submissions) < MaxRuns
                /\ task_submissions' = inserted.table
                /\ is_executing' = TRUE
                /\ runs' = [runs EXCEPT ![c] = [IdleRun EXCEPT !.pc = "agents",
                                                  !.task_id = inserted.outcome.value]]
       ELSE /\ is_executing' = FALSE
            /\ runs' = [runs EXCEPT ![c] = Ended("raised", StoreError)]
            /\ UNCHANGED task_submissions
    /\ UNCHANGED << agent_executions, evaluations, call, reply, config, tool_tree_component >>
    /\ UNCHANGED << executor_vars, parser_vars, explanation, evaluation >>

\* Lines 108-119: create_execution for the first executions of the list,
\* failing at position fail_at (0: never).
RECURSIVE SaveExecutions(_, _, _, _, _)
SaveExecutions(tasks, table, executions, k, fail_at) ==
    IF k > Len(executions) THEN [table |-> table, executions |-> executions, exc |-> NoExc]
    ELSE IF k = fail_at THEN [table |-> table, executions |-> executions, exc |-> StoreError]
    ELSE LET inserted == insert_execution(tasks, table, executions[k])
         IN  IF inserted.outcome.kind = "raise"
             THEN [table |-> table, executions |-> executions, exc |-> inserted.outcome.exc]
             ELSE SaveExecutions(tasks, inserted.table,
                                 [executions EXCEPT ![k].id = Some(inserted.outcome.value)],
                                 k + 1, fail_at)

\* Lines 105-131: execute_multi_agent returns, the executions are saved and
\* the evaluation agent is created (agent_ok) or not (no API key).
AgentsReturn(c, executions, fail_at, agent_ok) ==
    /\ runs[c].pc = "agents"
    /\ LET saved == SaveExecutions(task_submissions, agent_executions, executions, 1, fail_at)
       IN  /\ agent_executions' = saved.table
           /\ IF saved.exc # NoExc
              THEN /\ is_executing' = FALSE
                   /\ runs' = [runs EXCEPT ![c] = Ended("raised", saved.exc)]
              ELSE /\ runs' = [runs EXCEPT ![c].executions = saved.executions,
                                           ![c].pc = IF agent_ok THEN "loop" ELSE "display",
                                           ![c].index = 1,
                                           ![c].eval_agent =
                                               IF agent_ok THEN Some("Agent") ELSE None]
                   /\ UNCHANGED is_executing
    /\ UNCHANGED << task_submissions, evaluations, call, reply, config, tool_tree_component >>
    /\ UNCHANGED << executor_vars, parser_vars, explanation, evaluation >>

\* One line of the log about an execution of the loop.
Logged(e, event) == [execution_id |-> e.id, event |-> event]

\* Lines 132-160: the loop reaches an execution and skips it, gives up on
\* it, or awaits evaluate_execution for it; after the last one, line 183.
LoopStep(c) ==
    /\ runs[c].pc = "loop"
    /\ LET run == runs[c]
           e == run.executions[run.index]
           agent_response == extract_agent_response(e.all_messages_json)
       IN  IF run.index > Len(run.executions)
           THEN runs' = [runs EXCEPT ![c].pc = "display"]
           ELSE IF e.status # "completed" \/ e.id = None
           THEN runs' = [runs EXCEPT ![c].index = run.index + 1,
                                     ![c].log = Append(run.log, Logged(e, "skipped"))]
           ELSE IF agent_response.kind = "raise"
           THEN runs' = [runs EXCEPT ![c].index = run.index + 1,
                                     ![c].log = Append(run.log, Logged(e, "failed"))]
           ELSE IF agent_response.value = <<>>
           THEN runs' = [runs EXCEPT ![c].index = run.index + 1,
                                     ![c].log = Append(run.log, Logged(e, "no response"))]
           ELSE runs' = [runs EXCEPT ![c].pc = "evaluating",
                                     ![c].evaluator =
                                         [ state |-> "running",
                                           prompt |-> EvaluationPrompt("prompt",
                                                                       agent_response.value) ]]
    /\ UNCHANGED << call, store_vars, config, is_executing, tool_tree_component >>
    /\ UNCHANGED << executor_vars, parser_vars, explanation, evaluation >>

\* Lines 154-176 after the await: the evaluation is saved, or the failure
\* (of the evaluator, of the parsing, of the store) is logged.
Evaluated(c, awaited, store_ok) ==
    LET run == runs[c]
        e == run.executions[run.index]
        evaluated == evaluate_execution(awaited, e)
        inserted == insert_evaluation(agent_executions, evaluations, evaluated.value)
        saved == evaluated.kind = "return" /\ store_ok /\ inserted.outcome.kind = "return"
    IN  /\ evaluations' = IF saved THEN inserted.table ELSE evaluations
        /\ runs' = [runs EXCEPT ![c].pc = "loop",
                                ![c].index = run.index + 1,
                                ![c].evaluator = NoEvaluator,
                                ![c].log =
                                    Append(run.log,
                                           Logged(e, IF saved THEN "evaluation saved"
                                                     ELSE IF evaluated.kind = "raise"
                                                     THEN evaluated.exc.type
                                                     ELSE "not saved"))]
        /\ UNCHANGED << task_submissions, agent_executions, call, reply, config,
                        is_executing, tool_tree_component >>
        /\ UNCHANGED << executor_vars, parser_vars, explanation, evaluation >>

\* The evaluator ends before the deadline of with_timeout.
EvaluatorEnds(c, outcome, store_ok) ==
    /\ runs[c].pc = "evaluating" /\ runs[c].evaluator.state = "running"
    /\ Evaluated(c, with_timeout(outcome), store_ok)

\* The deadline fires: wait_for cancels the evaluator and awaits it.
EvaluationDeadline(c) ==
    /\ runs[c].pc = "evaluating" /\ runs[c].evaluator.state = "running"
    /\ runs' = [runs EXCEPT ![c].evaluator.state = "cancelling"]
    /\ UNCHANGED << call, store_vars, config, is_executing, tool_tree_component >>
    /\ UNCHANGED << executor_vars, parser_vars, explanation, evaluation >>

\* The cancelled evaluator ends.
EvaluatorCancelled(c, outcome, store_ok) ==
    /\ runs[c].pc = "evaluating" /\ runs[c].evaluator.state = "cancelling"
    /\ Evaluated(c, with_timeout(wait_for_expired(outcome)), store_ok)

NoUpdateFromMessages ==
    Exc("AttributeError", "'ToolCallTree' object has no attribute 'update_from_messages'")

\* Lines 183-216: the leaderboard is displayed (its errors are logged), the
\* tool tree is handed the trace of the first execution, and the call ends.
\* ToolCallTree (tool_tree.py:47-121) has no method update_from_messages.
Display(c) ==
    /\ runs[c].pc = "display"
    /\ LET run == runs[c]
       IN  IF /\ run.executions # <<>>
              /\ tool_tree_component # None
              /\ HasTrace(run.executions[1])
           THEN runs' = [runs EXCEPT ![c] = Ended("raised", NoUpdateFromMessages)]
           ELSE runs' = [runs EXCEPT ![c] = Ended("returned", NoExc)]
    /\ is_executing' = FALSE
    /\ UNCHANGED << call, store_vars, config, tool_tree_component >>
    /\ UNCHANGED << executor_vars, parser_vars, explanation, evaluation >>

\* MainPage.create (lines 232-258) creates the components of the page.
CreatePage ==
    /\ tool_tree_component = None
    /\ tool_tree_component' = Some("ToolCallTree")
    /\ UNCHANGED << call, store_vars, config, is_executing, runs >>
    /\ UNCHANGED << executor_vars, parser_vars, explanation, evaluation >>

PageInit ==
    /\ ExecutorIdle
    /\ ParserIdle
    /\ EvaluationIdle
    /\ StoreIdle
    /\ config \in Configs
    /\ PageConstructed

PageNext ==
    \/ CreatePage
    \/ \E c \in Callers, store_ok \in BOOLEAN : ExecuteTask(c, store_ok)
    \/ \E c \in Callers :
          /\ runs[c].pc = "agents"
          /\ \E executions \in PageExecutionLists(runs[c].task_id),
                fail_at \in 0..Len(config.task_agents), agent_ok \in BOOLEAN :
                AgentsReturn(c, executions, fail_at, agent_ok)
    \/ \E c \in Callers : LoopStep(c)
    \/ \E c \in Callers, outcome \in EvaluatorOutcomes, store_ok \in BOOLEAN :
          EvaluatorEnds(c, outcome, store_ok)
    \/ \E c \in Callers : EvaluationDeadline(c)
    \/ \E c \in Callers, outcome \in EvaluatorCancelOutcomes, store_ok \in BOOLEAN :
          EvaluatorCancelled(c, outcome, store_ok)
    \/ \E c \in Callers : Display(c)

PageSpec == PageInit /\ [][PageNext]_vars

(* --------------- deployments/render/main.py: execute_task -------------- *)
\* One dictionary of evaluated_results (lines 283-310).
ResultRow(e, score_value, explanation_text) ==
    [ execution_id |-> e.id, status |-> e.status, score |-> score_value,
      explanation |-> explanation_text ]

\* Lines 302-310: the row appended by except Exception as e; its explanation
\* is the words for "evaluation error: " followed by str(e).
EvaluationErrorRow(e, error) == ResultRow(e, 0, << "evaluation error: ", error.text >>)

\* Lines 226-257: the request creates the task and awaits
\* execute_multi_agent; an exception of the store ends it by the error page
\* of lines 326-330.
RenderExecuteTask(c, store_ok) ==
    /\ runs[c].pc \in Outside
    /\ IF store_ok
       THEN LET inserted == insert_task(task_submissions, "prompt")
            IN  /\ Len(task_submissions) < MaxRuns
                /\ task_submissions' = inserted.table
                /\ runs' = [runs EXCEPT ![c] = [IdleRun EXCEPT !.pc = "agents",
                                                  !.task_id = inserted.outcome.value]]
       ELSE /\ runs' = [runs EXCEPT ![c] = Ended("returned", StoreError)]
            /\ UNCHANGED task_submissions
    /\ UNCHANGED << agent_executions, evaluations, call, reply, config, is_executing, tool_tree_component >>
    /\ UNCHANGED << executor_vars, parser_vars, explanation, evaluation >>

\* Lines 249-259: execute_multi_agent returns and the evaluation agent is
\* created (agent_ok) or not (no API key: the error page).
RenderAgentsReturn(c, executions, agent_ok) ==
    /\ runs[c].pc = "agents"
    /\ runs' = [runs EXCEPT ![c] =
                   IF agent_ok
                   THEN [runs[c] EXCEPT !.executions = executions, !.pc = "loop",
                                        !.index = 1, !.eval_agent = Some("Agent")]
                   ELSE Ended("returned", Exc("ValueError", "API key environment variable not set"))]
    /\ UNCHANGED << call, store_vars, config, is_executing, tool_tree_component >>
    /\ UNCHANGED << executor_vars, parser_vars, explanation, evaluation >>

\* Lines 262-300 and 302-324: the loop saves the next execution and awaits
\* its evaluation, or appends a row with score 0 for it; after the last
\* execution the results are kept and the response is returned.
RenderLoopStep(c, store_ok) ==
    /\ runs[c].pc = "loop"
    /\ LET run == runs[c]
           e == run.executions[run.index]
           inserted == insert_execution(task_submissions, agent_executions, e)
           created == [e EXCEPT !.id = Some(inserted.outcome.value)]
           agent_response == extract_agent_response(e.all_messages_json)
           failed(of, error) ==
               [run EXCEPT !.index = run.index + 1,
                           !.log = Append(run.log, Logged(of, error.type)),
                           !.evaluated_results =
                               Append(run.evaluated_results, EvaluationErrorRow(of, error))]
       IN  IF run.index > Len(run.executions)
           THEN /\ runs' = [runs EXCEPT ![c].pc = "returned"]
                /\ UNCHANGED agent_executions
           ELSE IF ~store_ok
           THEN /\ runs' = [runs EXCEPT ![c] = failed(e, StoreError)]
                /\ UNCHANGED agent_executions
           ELSE IF inserted.outcome.kind = "raise"
           THEN /\ runs' = [runs EXCEPT ![c] = failed(e, inserted.outcome.exc)]
                /\ UNCHANGED agent_executions
           ELSE /\ agent_executions' = inserted.table
                /\ IF ~HasTrace(e)
                   THEN runs' = [runs EXCEPT
                                   ![c].executions[run.index] = created,
                                   ![c].index = run.index + 1,
                                   ![c].evaluated_results =
                                       Append(run.evaluated_results,
                                              ResultRow(created, 0, << "execution failed" >>))]
                   ELSE IF agent_response.kind = "raise"
                   THEN runs' = [runs EXCEPT
                                   ![c] = [failed(created, agent_response.exc)
                                              EXCEPT !.executions[run.index] = created]]
                   ELSE runs' = [runs EXCEPT
                                   ![c].executions[run.index] = created,
                                   ![c].pc = "evaluating",
                                   ![c].evaluator =
                                       [ state |-> "running",
                                         prompt |-> EvaluationPrompt("prompt",
                                                                     agent_response.value) ]]
    /\ UNCHANGED << task_submissions, evaluations, call, reply, config, is_executing, tool_tree_component >>
    /\ UNCHANGED << executor_vars, parser_vars, explanation, evaluation >>

\* Lines 272-310 after the await: the evaluation is saved and its score is
\* appended, or the exception (of the evaluator, of the parsing, of the
\* store) is logged and a row with score 0 is appended.
RenderEvaluated(c, awaited, store_ok) ==
    LET run == runs[c]
        e == run.executions[run.index]
        evaluated == evaluate_execution(awaited, e)
        inserted == insert_evaluation(agent_executions, evaluations, evaluated.value)
        error == IF evaluated.kind = "raise" THEN evaluated.exc
                 ELSE IF ~store_ok THEN StoreError
                 ELSE inserted.outcome.exc
    IN  /\ evaluations' = IF error = NoExc THEN inserted.table ELSE evaluations
        /\ runs' = [runs EXCEPT
                      ![c].pc = "loop",
                      ![c].index = run.index + 1,
                      ![c].evaluator = NoEvaluator,
                      ![c].log = IF error = NoExc THEN run.log
                                 ELSE Append(run.log, Logged(e, error.type)),
                      ![c].evaluated_results =
                          Append(run.evaluated_results,
                                 IF error = NoExc
                                 THEN ResultRow(e, evaluated.value.score,
                                                evaluated.value.explanation)
                                 ELSE EvaluationErrorRow(e, error))]
        /\ UNCHANGED << task_submissions, agent_executions, call, reply,
                        config, is_executing, tool_tree_component >>
        /\ UNCHANGED << executor_vars, parser_vars, explanation, evaluation >>

\* The evaluator ends before the deadline of with_timeout.
RenderEvaluatorEnds(c, outcome, store_ok) ==
    /\ runs[c].pc = "evaluating" /\ runs[c].evaluator.state = "running"
    /\ RenderEvaluated(c, with_timeout(outcome), store_ok)

\* The cancelled evaluator ends.
RenderEvaluatorCancelled(c, outcome, store_ok) ==
    /\ runs[c].pc = "evaluating" /\ runs[c].evaluator.state = "cancelling"
    /\ RenderEvaluated(c, with_timeout(wait_for_expired(outcome)), store_ok)

RenderInit == Init

\* The requests to /execute the model follows: one, made again after it
\* has been answered.
Requests == { 1 }

RenderNext ==
    \/ \E c \in Requests, store_ok \in BOOLEAN : RenderExecuteTask(c, store_ok)
    \/ \E c \in Requests :
          /\ runs[c].pc = "agents"
          /\ \E executions \in PageExecutionLists(runs[c].task_id), agent_ok \in BOOLEAN :
                RenderAgentsReturn(c, executions, agent_ok)
    \/ \E c \in Requests, store_ok \in BOOLEAN : RenderLoopStep(c, store_ok)
    \/ \E c \in Requests, outcome \in EvaluatorOutcomes, store_ok \in BOOLEAN :
          RenderEvaluatorEnds(c, outcome, store_ok)
    \/ \E c \in Requests : EvaluationDeadline(c)
    \/ \E c \in Requests, outcome \in EvaluatorCancelOutcomes, store_ok \in BOOLEAN :
          RenderEvaluatorCancelled(c, outcome, store_ok)

RenderSpec == RenderInit /\ [][RenderNext]_vars

(* ============================== claims ================================= *)
Status(i) == execution[i].status
Trace(i) == execution[i].all_messages_json
Returned_(i) == i \in Tasks /\ tpc[i] = "returned"

\* The operation of task i ended by raising an error of its own.
OpRaised(i) ==
    op[i].state = "ended" /\ op[i].outcome.kind = "raise" /\ op[i].outcome # Cancelled

\* The deadline of task i fired before its operation had ended.
DeadlineFirst(i) == timer[i] = "fired"

\* C1: once the status of an Execution is terminal, no later step of
\* execute_single_agent writes status, completed_at or duration_seconds
\* again (the status changes exactly once, from running to a terminal one).
C1_StatusWrittenOnce ==
    [][\A i \in DOMAIN execution :
          Status(i) \in TerminalStatuses =>
              /\ execution'[i].status = execution[i].status
              /\ execution'[i].completed_at = execution[i].completed_at
              /\ execution'[i].duration_seconds = execution[i].duration_seconds]_vars

\* C2: when execute_single_agent returns, the status is completed only if
\* the operation returned a result before the deadline fired, failed exactly
\* when the operation raised an error, and timeout exactly when the deadline
\* fired before the operation ended; an error raised before the deadline
\* never gives timeout.
C2_OutcomeClassification ==
    \A i \in Tasks :
        tpc[i] = "returned" =>
            /\ Status(i) = "completed" =>
                  op[i].outcome = Returned(RunResult) /\ ~DeadlineFirst(i)
            /\ Status(i) = "failed" <=> OpRaised(i)
            /\ Status(i) = "timeout" <=> DeadlineFirst(i)

\* C3: for lists of equal length N, execute_multi_agent returns N
\* Executions and the one at index i carries the provider and model of
\* config i and the given task id, in whatever order the agents finish.
C3_ResultsInInputOrder ==
    pc = "returned" =>
        /\ Len(results) = Len(agents)
        /\ Len(results) = Len(model_configs)
        /\ \A i \in 1..Len(results) :
              /\ results[i].model_provider = model_configs[i].provider
              /\ results[i].model_name = model_configs[i].model
              /\ results[i].task_id = task_id

\* C3 witness: two agents with different configs, the second finished first.
C3_Witness ==
    /\ pc = "returned"
    /\ Len(results) = 2
    /\ model_configs[1] # model_configs[2]
    /\ results[2].completed_at[1] < results[1].completed_at[1]

\* C4: for equal-length inputs execute_multi_agent never raises, and every
\* agent whose operation raised an error has a failed Execution in the
\* returned list.
C4_ErrorsBecomeFailed ==
    /\ Len(agents) = Len(model_configs) => pc # "raised"
    /\ pc = "returned" =>
          \A i \in 1..Len(results) : OpRaised(i) => results[i].status = "failed"

\* Task i is touched by a step: its position, Execution, operation, deadline
\* or locals change.
TaskChanged(i) ==
    \/ tpc'[i] # tpc[i]
    \/ op'[i] # op[i]
    \/ timer'[i] # timer[i]
    \/ result'[i] # result[i]
    \/ new_messages'[i] # new_messages[i]
    \/ caught'[i] # caught[i]
    \/ i \in DOMAIN execution /\ execution'[i] # execution[i]

\* C5: a pending sibling can always be dispatched, whatever the state of the
\* other agents, and no step of one agent (its failure and its timeout
\* included) changes the Execution, operation, deadline or position of a
\* sibling.
C5_SiblingIndependence ==
    /\ [](\A i \in Tasks : tpc[i] = "pending" => ENABLED Start(i))
    /\ [][\A i \in Tasks : \A j \in Tasks :
             i # j => ~(TaskChanged(i) /\ TaskChanged(j))]_vars

\* C5 witness: one agent failed or timed out and its sibling completed later.
C5_Witness ==
    /\ pc = "returned"
    /\ \E i \in Tasks : \E j \in Tasks :
          /\ results[i].status \in {"failed", "timeout"}
          /\ results[j].status = "completed"
          /\ results[j].completed_at[1] > results[i].completed_at[1]

\* C6: when len(agents) differs from len(model_configs) the call raises and
\* no task, agent operation or Execution exists.
C6_MismatchFailsFast ==
    Len(agents) # Len(model_configs) =>
        /\ pc = "raised"
        /\ Tasks = {}
        /\ DOMAIN execution = {}
        /\ DOMAIN op = {}
        /\ results = <<>>

\* C6 witness: two agents, one config.
C6_Witness ==
    pc = "raised" /\ Len(agents) = 2 /\ Len(model_configs) = 1

\* C7: an operation that returns before the deadline fires is never
\* classified as timeout.
C7_SentinelDistinct ==
    \A i \in Tasks :
        (tpc[i] = "returned" /\ ~DeadlineFirst(i) /\ op[i].outcome.kind = "return")
            => Status(i) # "timeout"

\* C8: when execute_single_agent returns, the trace is absent iff the status
\* is timeout; a failed Execution holds the error marker with the text of
\* the caught error; a completed one holds the serialised message list.
C8_TraceByStatus ==
    \A i \in Tasks :
        tpc[i] = "returned" =>
            /\ Trace(i) = NoTrace <=> Status(i) = "timeout"
            /\ Status(i) = "failed" =>
                  /\ caught[i] # NoExc
                  /\ Trace(i).kind = "error"
                  /\ Trace(i).error = caught[i].text
            /\ Status(i) = "completed" =>
                  /\ Trace(i).kind = "messages"
                  /\ Len(Trace(i).messages) = Len(new_messages[i])
                  /\ \A k \in 1..Len(new_messages[i]) :
                        Trace(i).messages[k].body = new_messages[i][k].body

\* C8 witness: usage() raised after the message list had been stored, and
\* the returned Execution is failed with the error marker.
C8_Witness ==
    /\ Returned_(1)
    /\ Status(1) = "failed"
    /\ caught[1] = UsageError
    /\ Trace(1) = ErrorMarker(UsageError)
    /\ Len(new_messages[1]) > 0

\* C9: completed_at and duration are absent while running; once terminal,
\* duration = completed_at - started_at and is not negative.
C9_Duration ==
    \A i \in DOMAIN execution :
        /\ Status(i) = "running" =>
              execution[i].completed_at = None /\ execution[i].duration_seconds = None
        /\ Status(i) \in TerminalStatuses =>
              /\ execution[i].completed_at # None
              /\ execution[i].duration_seconds # None
              /\ execution[i].duration_seconds[1] =
                    execution[i].completed_at[1] - execution[i].started_at
              /\ execution[i].duration_seconds[1] >= 0

\* C9 witness: a terminal Execution that took time.
C9_Witness ==
    /\ Returned_(1)
    /\ Status(1) \in TerminalStatuses
    /\ execution[1].duration_seconds[1] > 0

Extracted == response.kind # "none"

\* The trace is the dump of a list of messages.
IsMessageList == messages_json.text = "json" /\ isinstance(messages_json.doc, "list")
TraceMessages == val(messages_json.doc)

\* The messages of the trace that are objects with a list of parts, and
\* their parts that are objects.
PartsOf(message) ==
    IF isinstance(message, "dict") /\ isinstance(get(message, "parts", List(<<>>)), "list")
    THEN SelectSeq(val(get(message, "parts", List(<<>>))), LAMBDA part : isinstance(part, "dict"))
    ELSE <<>>

IsResponse(message) ==
    isinstance(message, "dict") /\ PyEq(get(message, "kind", Null), Str(<< "response" >>))

PartKindIs(part, kind) == PyEq(get(part, "part_kind", Null), Str(<< kind >>))

IsToolPart(part) == PartKindIs(part, "tool-call") \/ PartKindIs(part, "tool-return")

HasContent(part) == Truthy(get(part, "content", Str(<<>>)))

\* The text parts of the response messages, in trace order; content that
\* is structured counts by its string form.
RECURSIVE ResponseTexts(_)
ResponseTexts(messages) ==
    IF messages = <<>> THEN <<>>
    ELSE LET texts == SelectSeq(PartsOf(Head(messages)),
                                LAMBDA part : ~IsToolPart(part) /\ HasContent(part))
         IN  (IF IsResponse(Head(messages))
              THEN [i \in 1..Len(texts) |-> Str(format(get(texts[i], "content", Null)))]
              ELSE <<>>) \o ResponseTexts(Tail(messages))

\* "Called <tool_name>" and "Result: <content>" of the tool parts, in trace order.
ToolLine(part) ==
    IF PartKindIs(part, "tool-call")
    THEN Str(<< "Called " >> \o format(get(part, "tool_name", Str(<< "unknown tool" >>))))
    ELSE Str(<< "Result: " >> \o format(get(part, "content", Null)))

RECURSIVE ToolLines(_)
ToolLines(messages) ==
    IF messages = <<>> THEN <<>>
    ELSE LET tools == SelectSeq(PartsOf(Head(messages)),
                                LAMBDA part : \/ PartKindIs(part, "tool-call")
                                              \/ PartKindIs(part, "tool-return") /\ HasContent(part))
         IN  [i \in 1..Len(tools) |-> ToolLine(tools[i])] \o ToolLines(Tail(messages))

HasToolCall ==
    \E i \in 1..Len(TraceMessages) :
        \E j \in 1..Len(PartsOf(TraceMessages[i])) :
            PartKindIs(PartsOf(TraceMessages[i])[j], "tool-call")

HasToolPart ==
    \E i \in 1..Len(TraceMessages) :
        \E j \in 1..Len(PartsOf(TraceMessages[i])) : IsToolPart(PartsOf(TraceMessages[i])[j])

\* C11: extract_agent_response returns a string and never raises, whatever
\* the trace: "" for an absent, empty or unparseable trace, and a string
\* for a parsed trace of any shape.
C11_NeverRaises ==
    Extracted =>
        /\ response.kind = "return"
        /\ messages_json \in { NoneArg, Text(""), Text("not valid json") }
              => response.value = <<>>

\* C12: for the error marker a failed execution stores, answer extraction
\* returns a non-empty string holding the error text behind a prefix.
C12_ErrorSurfaced ==
    \A e \in AgentErrors :
        (Extracted /\ messages_json = ErrorTrace(e)) =>
            /\ response.kind = "return"
            /\ \E i \in 2..Len(response.value) : response.value[i] = ErrorMarker(e).error

\* C13: for a trace that is a list of messages the answer is the text parts
\* of the response messages, in trace order, joined by single spaces and
\* trimmed; request text and the content of tool parts are not in it.
C13_TextOfResponses ==
    (Extracted /\ IsMessageList) =>
        /\ response.kind = "return"
        /\ response.value = strip(concat(ResponseTexts(TraceMessages)))

\* C14: with no response text and a tool call in the trace the answer is the
\* non-empty "Called <tool_name>" / "Result: <content>" lines in trace order
\* joined by spaces, for text and for structured results; with neither text
\* nor tool parts the answer is "".
C14_ToolFallback ==
    (Extracted /\ IsMessageList /\ ResponseTexts(TraceMessages) = <<>>) =>
        /\ response.kind = "return"
        /\ HasToolCall =>
              /\ response.value # <<>>
              /\ response.value = strip(concat(ToolLines(TraceMessages)))
        /\ ~HasToolPart => response.value = <<>>

(* ------------------ claims on the tool-call hierarchy ------------------ *)
\* extract_tool_hierarchy has been applied to the trace.
HierarchyDone == tool_hierarchy.kind # "none"

\* The parts of the given part_kind inside the messages, in trace order.
RECURSIVE PartsOfKind(_, _)
PartsOfKind(messages, kind) ==
    IF messages = <<>> THEN <<>>
    ELSE SelectSeq(PartsOf(Head(messages)), LAMBDA part : PartKindIs(part, kind))
         \o PartsOfKind(Tail(messages), kind)

\* The distinct items of a sequence in the order they are first seen.
RECURSIVE FirstSeen(_)
FirstSeen(s) ==
    IF s = <<>> THEN <<>>
    ELSE LET before == FirstSeen(SubSeq(s, 1, Len(s) - 1))
         IN  IF \E i \in 1..Len(before) : before[i] = s[Len(s)] THEN before
             ELSE Append(before, s[Len(s)])

IsIn(s, x) == \E i \in 1..Len(s) : s[i] = x

\* The number of places that refer to the node of call_id: the root list
\* and the children list of every node.
RECURSIVE Count(_, _)
Count(s, x) ==
    IF s = <<>> THEN 0 ELSE (IF Head(s) = x THEN 1 ELSE 0) + Count(Tail(s), x)

RECURSIVE CountInChildren(_, _)
CountInChildren(nodes, x) ==
    IF nodes = <<>> THEN 0
    ELSE Count(Head(nodes)[2].children, x) + CountInChildren(Tail(nodes), x)

\* The nodes reached from the nodes of a set by at most n children links.
RECURSIVE Reach(_, _, _)
Reach(nodes, from, n) ==
    IF n = 0 THEN {}
    ELSE LET next == UNION { { getitem(nodes, id).children[i] :
                                  i \in 1..Len(getitem(nodes, id).children) } : id \in from }
         IN  next \cup Reach(nodes, next, n - 1)

\* C15: for a trace of the kind/part_kind format, whose tool calls and tool
\* returns are parts of its messages, extract_tool_hierarchy returns one
\* root per distinct call_id in first-seen order, with the tool_name and
\* args of the call, the result of the return with the same call_id (the
\* empty marker without one) and no children.
C15_NodesOfKindFormat ==
    (HierarchyDone /\ IsMessageList
        /\ \A i \in 1..Len(TraceMessages) : TraceMessages[i] \in KindMessages) =>
        /\ tool_hierarchy.kind = "return"
        /\ LET h == tool_hierarchy.value
               calls == PartsOfKind(TraceMessages, "tool-call")
               returns == PartsOfKind(TraceMessages, "tool-return")
               ids == FirstSeen([i \in 1..Len(calls) |-> get(calls[i], "call_id", Null)])
           IN  /\ h.root_nodes = ids
               /\ \A i \in 1..Len(ids) :
                     /\ contains(h.nodes, ids[i])
                     /\ \E j \in 1..Len(calls) :
                           /\ get(calls[j], "call_id", Null) = ids[i]
                           /\ getitem(h.nodes, ids[i]).tool_name = get(calls[j], "tool_name", Null)
                           /\ getitem(h.nodes, ids[i]).args = get(calls[j], "args", Null)
                     /\ getitem(h.nodes, ids[i]).children = <<>>
                     /\ \/ \E j \in 1..Len(returns) :
                              /\ get(returns[j], "call_id", Null) = ids[i]
                              /\ PyEq(getitem(h.nodes, ids[i]).result,
                                      get(returns[j], "content", Null))
                        \/ /\ \A j \in 1..Len(returns) : get(returns[j], "call_id", Null) # ids[i]
                           /\ PyEq(getitem(h.nodes, ids[i]).result, EmptyDict)

\* C16: in the result a call is a root exactly when its parent_id is absent
\* or names no extracted call (a dangling parent makes a root, it is not
\* dropped and raises nothing), and every other call is a child of its
\* declared parent, in first-seen order.
C16_RootIffNoKnownParent ==
    (HierarchyDone /\ IsMessageList) =>
        /\ tool_hierarchy.kind = "return"
        /\ LET h == tool_hierarchy.value
               calls == ScanToolMessages(TraceMessages, <<>>, <<>>).tool_calls
               parent(id) == getitem(calls, id).parent_id
               known(id) == Truthy(parent(id)) /\ contains(calls, parent(id))
           IN  /\ h.root_nodes = SelectSeq(keys(calls), LAMBDA id : ~known(id))
               /\ \A i \in 1..Len(calls) :
                     /\ contains(h.nodes, calls[i][1])
                     /\ getitem(h.nodes, calls[i][1]).children
                           = SelectSeq(keys(calls),
                                       LAMBDA id : known(id) /\ parent(id) = calls[i][1])

\* C17: extract_tool_hierarchy returns the empty list and raises nothing
\* for an absent trace, a trace that is not JSON, an error marker and a
\* trace without tool invocations.
C17_EmptyWithoutRaising ==
    (/\ HierarchyDone
     /\ \/ messages_json \in { NoneArg, Text(""), Text("not valid json") }
        \/ \E e \in AgentErrors : messages_json = ErrorTrace(e)
        \/ IsMessageList /\ \A i \in 1..Len(TraceMessages) : TraceMessages[i] \in PlainMessages)
    => /\ tool_hierarchy.kind = "return"
       /\ tool_hierarchy.value.root_nodes = <<>>

\* C18: the nodes extract_tool_hierarchy builds never form a cycle, also
\* when a call names itself or a descendant as its parent: no node reaches
\* itself through children links, every call_id has one node, and a node
\* is referred to at most once (as a root or as a child of one parent).
C18_Acyclic ==
    (HierarchyDone /\ tool_hierarchy.kind = "return") =>
        LET h == tool_hierarchy.value
            ids == keys(h.nodes)
        IN  /\ \A i \in 1..Len(ids) : ids[i] \notin Reach(h.nodes, { ids[i] }, Len(ids))
            /\ \A i, j \in 1..Len(ids) : ids[i] = ids[j] => i = j
            /\ \A i \in 1..Len(ids) :
                  Count(h.root_nodes, ids[i]) + CountInChildren(h.nodes, ids[i]) <= 1

(* --------------------- claims on score extraction ---------------------- *)
\* extract_score has been applied to the text.
ScoreDone == score.kind # "none"

\* Pieces j..k of the text are a whole run of digits.
IsNumberAt(j, k) ==
    /\ 1 <= j /\ j <= k /\ k <= Len(text)
    /\ \A p \in j..k : text[p] \in Digits
    /\ j = 1 \/ text[j - 1] \notin Digits
    /\ k = Len(text) \/ text[k + 1] \notin Digits

\* Piece i is a marker, followed by any whitespace and the digits j..k.
MarkerAt(i, j, k) ==
    /\ i \in 1..Len(text) /\ text[i] \in Markers
    /\ i < j /\ \A p \in (i + 1)..(j - 1) : text[p] \in Whitespace
    /\ IsNumberAt(j, k)

HasMarker == \E i, j, k \in 1..Len(text) : MarkerAt(i, j, k)

\* The integer of the first marker of the text.
MarkerValue ==
    LET m == CHOOSE m \in (1..Len(text)) \X (1..Len(text)) \X (1..Len(text)) :
                 /\ MarkerAt(m[1], m[2], m[3])
                 /\ \A i, j, k \in 1..Len(text) : MarkerAt(i, j, k) => m[1] <= i
    IN  int(SubSeq(text, m[2], m[3]))

\* The digits j..k stand alone (no letter or digit touches them) and make
\* an integer in 0..100.
StandaloneAt(j, k) ==
    /\ IsNumberAt(j, k)
    /\ j = 1 \/ text[j - 1] # "x"
    /\ k = Len(text) \/ text[k + 1] \notin { "x" } \cup Markers
    /\ int(SubSeq(text, j, k)) \in 0..100

HasStandalone == \E j, k \in 1..Len(text) : StandaloneAt(j, k)

\* The first standalone integer in 0..100 of the text.
StandaloneValue ==
    LET n == CHOOSE n \in (1..Len(text)) \X (1..Len(text)) :
                 /\ StandaloneAt(n[1], n[2])
                 /\ \A j, k \in 1..Len(text) : StandaloneAt(j, k) => n[1] <= j
    IN  int(SubSeq(text, n[1], n[2]))

MarkerOutOfRange ==
    \E i \in 1..Len(text) :
        /\ text[i] \in Markers
        /\ \A p \in 1..(i - 1) : text[p] \notin Markers
        /\ \/ \E j, k \in 1..Len(text) : MarkerAt(i, j, k) /\ int(SubSeq(text, j, k)) > 100
           \/ \E j, k \in 1..Len(text) :
                 /\ i < j - 1 /\ text[j - 1] = "-"
                 /\ \A p \in (i + 1)..(j - 2) : text[p] \in Whitespace
                 /\ IsNumberAt(j, k) /\ int(SubSeq(text, j, k)) > 0

\* C20: when the "Score:" marker carries a value outside 0..100, above 100
\* or negative, extract_score raises: it returns neither a clamped value
\* nor a value in range found elsewhere in the text.
C20_OutOfRangeRaises ==
    (ScoreDone /\ MarkerOutOfRange) => score.kind = "raise"

(* ------------------ claims on explanation extraction ------------------- *)
\* extract_explanation has been applied to the text.
ExplanationDone == explanation.kind # "none"

\* The trimmed text after the first explanation marker, <<>> without one.
AfterExplanation ==
    IF \E i \in 1..Len(text) : text[i] \in ExplanationMarkers
    THEN LET i == CHOOSE i \in 1..Len(text) :
                      /\ text[i] \in ExplanationMarkers
                      /\ \A p \in 1..(i - 1) : text[p] \notin ExplanationMarkers
         IN  strip(SubSeq(text, i + 1, Len(text)))
    ELSE <<>>

\* The trimmed text after the integer of the first score marker, <<>>
\* without one.
AfterScore ==
    IF HasMarker
    THEN LET m == CHOOSE m \in (1..Len(text)) \X (1..Len(text)) \X (1..Len(text)) :
                      /\ MarkerAt(m[1], m[2], m[3])
                      /\ \A i, j, k \in 1..Len(text) : MarkerAt(i, j, k) => m[1] <= i
         IN  strip(SubSeq(text, m[3] + 1, Len(text)))
    ELSE <<>>

\* What the fallbacks of the explanation give: the text after the
\* explanation marker, else the text after the score marker, else the text.
ExpectedExplanation ==
    IF AfterExplanation # <<>> THEN AfterExplanation
    ELSE IF AfterScore # <<>> THEN AfterScore
    ELSE strip(text)

\* C21: extract_explanation returns the trimmed text after the
\* "Explanation:" marker when that is non-empty, otherwise the trimmed text
\* after the "Score: <integer>" marker when that is non-empty, otherwise the
\* whole text trimmed when that is non-empty, otherwise it raises; it never
\* returns an empty or whitespace-only text.
C21_ExplanationFallbacks ==
    ExplanationDone =>
        /\ ExpectedExplanation # <<>> =>
              explanation.kind = "return" /\ explanation.value = ExpectedExplanation
        /\ ExpectedExplanation = <<>> => explanation.kind = "raise"
        /\ explanation.kind = "return" => strip(explanation.value) # <<>>

(* --------------------- claims on EvaluationResult ---------------------- *)
\* An EvaluationResult was asked for, by its constructor or by the pipeline.
ResultDone == evaluation.kind # "none"
Constructed == call # <<>> /\ call[1] = "EvaluationResult"

\* C22: every EvaluationResult that exists has a score in 0..100 and an
\* explanation that is not empty after trimming; constructing one with a
\* score outside 0..100 or with an empty or whitespace-only explanation raises
\* and yields no object; what parse_evaluation_response and
\* evaluate_execution return satisfies the same.
C22_ValidResults ==
    ResultDone =>
        /\ evaluation.kind = "return" =>
              /\ evaluation.value.score \in 0..100
              /\ strip(evaluation.value.explanation) # <<>>
        /\ (Constructed /\ (call[3] \notin 0..100 \/ strip(call[4]) = <<>>)) =>
              evaluation.kind = "raise"
        /\ (Constructed /\ call[3] \in 0..100 /\ strip(call[4]) # <<>>) =>
              evaluation.kind = "return"

\* The constructor refused a score above 100 for an explanation that has
\* text.
C22_Witness ==
    /\ Constructed /\ call[3] = 101 /\ strip(call[4]) # <<>>
    /\ evaluation.kind = "raise"

(* -------------------------- claims on the store ------------------------ *)
\* The last call was get_leaderboard(task) and reply holds its rows.
Queried == call # <<>> /\ call[1] = "get_leaderboard"
QueriedTask == call[2]
Leaderboard == reply.value

\* The stored execution a leaderboard row is about.
ExecutionOf(row) == CHOOSE ae \in Rows(agent_executions) : ae.id = row.execution_id

\* C25: get_leaderboard(task_id) returns only rows of that task, ordered by
\* score descending and, among rows with equal score, by duration ascending,
\* whatever the order in which executions and evaluations were inserted.
C25_RankedRowsOfTask ==
    Queried =>
        /\ reply.kind = "return"
        /\ \A i \in DOMAIN Leaderboard :
              /\ Leaderboard[i].execution_id \in Ids(agent_executions)
              /\ ExecutionOf(Leaderboard[i]).task_id = QueriedTask
        /\ \A i, j \in DOMAIN Leaderboard :
              i < j =>
                 /\ Leaderboard[i].score >= Leaderboard[j].score
                 /\ ( /\ Leaderboard[i].score = Leaderboard[j].score
                      /\ Leaderboard[i].duration_seconds # None
                      /\ Leaderboard[j].duration_seconds # None ) =>
                        Leaderboard[i].duration_seconds[1] <= Leaderboard[j].duration_seconds[1]

\* Two rows with the same score came back with the faster one first although
\* its execution and its evaluation were inserted last.
C25_Witness ==
    /\ Queried /\ reply.kind = "return" /\ Len(Leaderboard) = 2
    /\ Leaderboard[1].score = Leaderboard[2].score
    /\ Leaderboard[1].duration_seconds = Some(1)
    /\ Leaderboard[2].duration_seconds = Some(2)
    /\ Leaderboard[1].execution_id > Leaderboard[2].execution_id
    /\ evaluations[Len(evaluations)].execution_id = Leaderboard[1].execution_id

\* C26: get_leaderboard(task_id) returns one row for every persisted
\* execution of the task, with its evaluation when one exists and without it
\* otherwise; an execution that has no evaluation is still listed.
C26_EveryExecutionListed ==
    Queried =>
        /\ reply.kind = "return"
        /\ \A ae \in Rows(agent_executions) :
              ae.task_id = QueriedTask =>
                 Cardinality({ i \in DOMAIN Leaderboard :
                                  Leaderboard[i].execution_id = ae.id }) = 1

\* The last call was create_evaluation(ev).
EvaluationCreated == call # <<>> /\ call[1] = "create_evaluation"

\* C27: after any sequence of create_execution and create_evaluation calls
\* the store holds at most one evaluation per execution id; a
\* create_evaluation for an execution that already has one is rejected and
\* leaves the evaluations as they were.
C27_OneEvaluationPerExecution ==
    /\ [](\A i, j \in DOMAIN evaluations :
             evaluations[i].execution_id = evaluations[j].execution_id => i = j)
    /\ [][(/\ call' # <<>> /\ call'[1] = "create_evaluation"
           /\ \E i \in DOMAIN evaluations :
                 evaluations[i].execution_id = call'[2].execution_id) =>
             /\ reply'.kind = "raise"
             /\ evaluations' = evaluations]_vars

\* A second evaluation, with another score, was refused for an execution
\* that keeps its first one.
C27_Witness ==
    /\ EvaluationCreated /\ reply.kind = "raise"
    /\ reply.exc = ConstraintException("idx_evaluations_execution_id")
    /\ \E i \in DOMAIN evaluations :
          /\ evaluations[i].execution_id = call[2].execution_id
          /\ evaluations[i].score # call[2].score

(* --------------------------- claims on the page ------------------------ *)
\* Caller c is inside execute_task, past the check of is_executing.
InProgress(c) == runs[c].pc \in { "agents", "loop", "evaluating", "display" }

\* The tables of the store.
tables == << task_submissions, agent_executions, evaluations >>

\* C24: every evaluation run builds the evaluator's prompt from the
\* configured template, and fails before the evaluator agent is invoked when
\* the template lacks {task_prompt} or {agent_response}.
C24_PromptFromTemplate ==
    \A c \in Callers :
        runs[c].evaluator.state # "idle" =>
            LET formatted == format_evaluation_prompt(config.evaluation_prompt,
                                                      runs[c].evaluator.prompt.task_prompt,
                                                      runs[c].evaluator.prompt.agent_response)
            IN  /\ formatted.kind = "return"
                /\ runs[c].evaluator.prompt = formatted.value

\* The evaluation of the execution of a log line failed: the evaluator timed
\* out or raised, the score or the explanation was not found, or the store
\* refused the evaluation.
EvaluationFailed(line) ==
    line.event \in { "TimeoutError", "RuntimeError", "ValueError", "not saved" }
\* The loop reached the execution of a log line and handled it: it tried the
\* evaluation, or found no response text to evaluate.
EvaluationTried(line) ==
    EvaluationFailed(line) \/ line.event \in { "evaluation saved", "no response" }
HasFailure(c) == \E k \in DOMAIN runs[c].log : EvaluationFailed(runs[c].log[k])

\* C28: in the evaluation loop of MainPage.execute_task a failure while
\* evaluating one execution leaves that execution persisted without an
\* evaluation and does not stop the loop: every later completed execution is
\* still evaluated, and execute_task still finishes normally.
C28_FailureDoesNotStopLoop ==
    /\ [](\A c \in Callers :
            \A k \in DOMAIN runs[c].log :
                EvaluationFailed(runs[c].log[k]) =>
                    /\ runs[c].log[k].execution_id # None
                    /\ runs[c].log[k].execution_id[1] \in Ids(agent_executions)
                    /\ \A i \in DOMAIN evaluations :
                          evaluations[i].execution_id # runs[c].log[k].execution_id[1]
                    /\ runs[c].pc = "display" =>
                          \A j \in DOMAIN runs[c].log :
                              (j > k /\ runs[c].executions[j].status = "completed") =>
                                  EvaluationTried(runs[c].log[j]))
    /\ [][\A c \in Callers :
            (runs[c].pc = "display" /\ HasFailure(c) /\ runs'[c].pc # "display") =>
                runs'[c].pc = "returned"]_vars

\* C30: for one MainPage at most one execute_task run is in progress at any
\* time; a call made while is_executing is true returns without creating a
\* task, dispatching agents or writing to the store; is_executing is false
\* again after every run ends, normally or by an exception.
C30_OneRunAtATime ==
    /\ [](/\ \A c, d \in Callers : (InProgress(c) /\ InProgress(d)) => c = d
          /\ is_executing <=> \E c \in Callers : InProgress(c))
    /\ [][\A c \in Callers :
            (runs[c].pc \in Outside /\ is_executing /\ runs'[c] # runs[c]) =>
                /\ runs'[c].pc = "rejected"
                /\ tables' = tables
                /\ is_executing']_vars

\* A call was turned away while another caller's run was in its evaluation
\* loop, waiting for the evaluator.
C30_Witness ==
    \E c, d \in Callers :
        /\ runs[c].pc = "rejected"
        /\ InProgress(d)
        /\ runs[d].pc = "evaluating"

(* ----------------------- claims on the render loop --------------------- *)
\* The evaluation of the execution of a log line ended by the timeout
\* failure of evaluate_execution.
TimedOut(line) == line.event = EvaluationTimedOut.type

\* C23: when the evaluator agent does not finish within the evaluation
\* timeout, no EvaluationResult is persisted for that execution and the
\* batch evaluation loop attributes no score, in particular not 0, to it.
C23_TimeoutNotScored ==
    \A c \in Callers :
        \A k \in DOMAIN runs[c].log :
            TimedOut(runs[c].log[k]) =>
                /\ \A i \in DOMAIN evaluations :
                      Some(evaluations[i].execution_id) # runs[c].log[k].execution_id
                /\ \A j \in DOMAIN runs[c].evaluated_results :
                      runs[c].evaluated_results[j].execution_id #
                          runs[c].log[k].execution_id

(* ------------------- claims on the batch's termination ----------------- *)
\* The deadline of task i is past.
PastDeadline(i) == now - execution[i].started_at > TimeoutSeconds

====
